---- MODULE Spec2Model ----
(***************************************************************************)
(* Clinic back end (se-project-backend): the schedule-slot and appointment *)
(* endpoints, the validators they run, the authorization gate of the       *)
(* method decorators, and the constraints and triggers of the MySQL schema *)
(* those endpoints write to.                                               *)
(*                                                                         *)
(* Encoding of request values.  A JSON body field is a record              *)
(*   [t |-> <JavaScript kind>, v |-> <value>]                              *)
(* where t is "undefined" (field absent), "falsy" (a value JavaScript takes *)
(* for false: "", 0, false), "ok" (a value of the right type and shape, v  *)
(* holding it) or "bad" (a value of the wrong type or shape).              *)
(* Times of day are the integers 0..MaxTime (a grid of HH:MM values, in    *)
(* order); dates are day numbers, date 0 being a Monday.                   *)
(***************************************************************************)
EXTENDS Integers, Sequences, FiniteSets, TLC

VARIABLES
    time_slot,          \* table time_slot: set of rows
    appointment,        \* table appointment: set of rows
    slotAutoInc,        \* auto_increment counter of time_slot.id
    appointmentAutoInc, \* auto_increment counter of appointment.id
    tokens,             \* session token registry (in-memory map), as a set of Token records
    session_token,      \* persisted session_token column, per subject
    now,                \* the clock: [date |-> current_date(), time |-> current_time()]
    pending,            \* requests whose handler is suspended at an await: set of requests
    request,            \* the request handled by the last step
    response            \* the response it was answered with

vars == <<time_slot, appointment, slotAutoInc, appointmentAutoInc, tokens,
          session_token, now, pending, request, response>>

-----------------------------------------------------------------------------
(* Bounds of the model *)

MaxTime == 3
MaxSlotId == 5
MaxAppointmentId == 2
MaxNow == 2

-----------------------------------------------------------------------------
(* HTTP statuses (enum HTTPStatus) *)

OK_STATUS == 200
CREATED == 201
NO_CONTENT == 204
NOT_MODIFIED == 304
BAD_REQUEST == 400
UNAUTHORIZED == 401
NOT_FOUND == 404
CONFLICT == 409
INTERNAL_SERVER_ERROR == 500

\* The handler's promise rejected.  For a method declared with
\* requiresAuthorization the authorization wrapper calls the handler without
\* awaiting or returning its promise, so the rejection is caught by nobody and
\* no response is ever sent; status 0 stands for "no response".
UNHANDLED_REJECTION == 0

-----------------------------------------------------------------------------
(* Subjects and the rows no endpoint changes *)

Patients == {"P1", "P2"}
Medics == {"M1", "M2"}
Admins == {"A1"}
Subjects == Patients \cup Medics \cup Admins

\* A rut that passes isValidRut but belongs to nobody, and one that fails it.
UnknownRut == "U0"
InvalidRut == "bad-rut"

isValidRut(rut) == rut # InvalidRut

\* table medic: rut -> schedule_id (rows are inserted by the schema script only)
medic == [m \in Medics |-> IF m = "M1" THEN 1 ELSE 2]

Schedules == {medic[m] : m \in Medics}

\* enum of time_slot.day, in the order of the schema
Days == <<"mo", "tu", "we", "th", "fr", "sa", "su">>

Times == 0..MaxTime

TokenType == {"PATIENT", "MEDIC", "ADMIN"}

TypeOfSubject(s) ==
    IF s \in Patients THEN "PATIENT" ELSE IF s \in Medics THEN "MEDIC" ELSE "ADMIN"

-----------------------------------------------------------------------------
(* Results of validators *)

\* {ok: true} and {ok: false, status, message}; key is the ${key} of the message
Ok == [ok |-> TRUE, status |-> OK_STATUS, message |-> "", key |-> ""]
Fail(status, message, key) == [ok |-> FALSE, status |-> status, message |-> message, key |-> key]
\* a TypeError thrown while validating (a rejected promise, not a result value)
Thrown(key) ==
    [ok |-> FALSE, status |-> UNHANDLED_REJECTION,
     message |-> "TypeError: validator.validate is not a function", key |-> key]

\* JavaScript's !value and typeof value === "undefined" on an encoded field
Falsy(x) == x.t \in {"undefined", "falsy"}
IsAbsent(x) == x.t = "undefined"

-----------------------------------------------------------------------------
(* class Validator *)

\* An entry of a validator table after the constructor has parsed it.  An entry
\* declared as {required, validate} is kept as it is.  An entry declared as a
\* bare function f is stored as {required: false, validator: f}: it has no
\* property named validate.
Entry(key, required) == [key |-> key, required |-> required, hasValidate |-> TRUE]
BareEntry(key) == [key |-> key, required |-> FALSE, hasValidate |-> FALSE]

\* Validator.validate: the declared fields in order, then the global validator.
\* fieldResult[key] is what the field's own validate function returns for
\* object[key]; globalResult is what the global validator returns.
RECURSIVE validateFrom(_, _, _, _, _)
validateFrom(i, table, object, fieldResult, globalResult) ==
    IF i > Len(table) THEN globalResult
    ELSE LET validator == table[i]
             value == object[validator.key]
         IN  IF validator.required /\ Falsy(value)
                THEN Fail(BAD_REQUEST, "Missing ${key}.", validator.key)
             ELSE IF ~validator.hasValidate
                THEN Thrown(validator.key)
             ELSE IF ~fieldResult[validator.key].ok
                THEN fieldResult[validator.key]
             ELSE validateFrom(i + 1, table, object, fieldResult, globalResult)

validate(table, object, fieldResult, globalResult) ==
    validateFrom(1, table, object, fieldResult, globalResult)

-----------------------------------------------------------------------------
(* Session token registry and the authorization gate *)

\* length of a session token: randomBytes(64) in base64url
TokenLength == 86

\* no token: a NULL session_token column, a failed lookup
NULL == 0

NoToken == [token |-> NULL, rut |-> "", type |-> "INVALID"]

\* tokens.get(token): the registry entry of a string, or null.  A string is
\* [id, len, alphabet]: the registered token id itself when it has all of its
\* 86 base64url characters, otherwise some other string.
getTokenData(str) ==
    IF str.len = TokenLength /\ str.alphabet
       /\ \E tk \in tokens : tk.token = str.id
    THEN CHOOSE tk \in tokens : tk.token = str.id
    ELSE NoToken

\* a variant of getToken whose pattern does not fix the length of the token
getTokenAnyLength(header) ==
    IF ~(header.prefix = "Bearer " /\ header.str.alphabet)
    THEN NoToken
    ELSE IF \E tk \in tokens : tk.token = header.str.id
    THEN CHOOSE tk \in tokens : tk.token = header.str.id
    ELSE NoToken

\* Endpoint.getToken: the header must match /^Bearer [A-Za-z0-9_-]{86}$/, and
\* bearerToken.slice(7) is looked up.  A header is [prefix, str]: the text
\* before the token string and the token string.
getToken(header) ==
    IF ~(header.prefix = "Bearer " /\ header.str.len = TokenLength /\ header.str.alphabet)
    THEN NoToken
    ELSE getTokenData(header.str)

\* the check of the wrapper makeMethodDecorator installs for
\* requiresAuthorization; required is the set of accepted token types
\* (requiresAuthorization: true accepts every type)
isAuthorized(header, required) ==
    LET token == getToken(header)
    IN  ~(token = NoToken \/ token.type \notin required)

\* the requiresAuthorization option of each method decorator, by operation;
\* requiresAuthorization: true is the set of all token types
AnyType == TokenType
requiresAuthorization ==
    [op \in {"patients.createAppointment", "patients.updateAppointment",
             "patients.deleteAppointment", "medics.createAppointment",
             "medics.updateAppointment", "medics.deleteAppointment",
             "medics.createMedicScheduleSlot", "medics.updateMedicScheduleSlot",
             "medics.deleteMedicScheduleSlot", "patients.expireSession",
             "medics.expireSession", "admins.expireSession"} |->
        IF op \in {"patients.createAppointment", "patients.updateAppointment",
                   "patients.deleteAppointment"}
        THEN AnyType
        ELSE IF op = "patients.expireSession" THEN {"PATIENT"}
        ELSE IF op = "medics.expireSession" THEN {"MEDIC"}
        ELSE IF op = "admins.expireSession" THEN {"ADMIN"}
        ELSE {"MEDIC", "ADMIN"}]

\* operations registered with PostMethod: the content type is checked first
PostMethod ==
    {"patients.createAppointment", "medics.createAppointment",
     "medics.createMedicScheduleSlot", "patients.createSession", "medics.createSession",
     "admins.createSession"}

InvalidSessionToken == Fail(UNAUTHORIZED, "Invalid session token.", "")
ContentTypeError ==
    Fail(BAD_REQUEST, "Content-Type header must be 'application/json'.", "")

\* The wrappers makeMethodDecorator installs around a handler, outermost
\* first: a POST whose content type is not application/json is answered 400;
\* then, for requiresAuthorization, a request without an accepted token is
\* answered 401; a result that is ok lets the handler body run.  req.json
\* tells whether the content type is application/json.  An operation declared
\* without requiresAuthorization has no authorization wrapper.
makeMethodDecorator(req) ==
    IF req.op \in PostMethod /\ ~req.json THEN ContentTypeError
    ELSE IF req.op \in DOMAIN requiresAuthorization
            /\ ~isAuthorized(req.header, requiresAuthorization[req.op])
        THEN InvalidSessionToken
    ELSE Ok

\* the header a well-behaved client sends for a token
Bearer(tokenId) ==
    [prefix |-> "Bearer ", str |-> [id |-> tokenId, len |-> TokenLength, alphabet |-> TRUE]]
NoHeader == [prefix |-> "", str |-> [id |-> NULL, len |-> 0, alphabet |-> TRUE]]

-----------------------------------------------------------------------------
(* Schedule slots: MedicsEndpoint and the time_slot table *)

\* a variant of slotClauses that also counts touching ranges as a conflict
slotClausesInclusive(row, start, end) == row.start <= end /\ start <= row.end

\* The WHERE clause of the overlap queries of newScheduleSlotValidator and
\* scheduleSlotUpdateValidator, for a stored row and a candidate (start, end):
\* the six clauses in the order of the source.
slotClauses(row, start, end) ==
    \/ row.start = start
    \/ row.end = end
    \/ (row.start < start /\ row.end > start)
    \/ (row.start < end /\ row.end > end)
    \/ (row.start > start /\ row.end < end)
    \/ (row.start < start /\ row.end > end)

\* the overlap query itself: some active row of the schedule and day matches
doesSlotOverlap(scheduleId, day, start, end) ==
    \E row \in time_slot :
        /\ row.schedule_id = scheduleId
        /\ row.day = day
        /\ row.active = TRUE
        /\ slotClauses(row, start, end)

\* field validators of newScheduleSlotValidator (day, start, end)
slotFieldResult(body) ==
    [k \in {"day", "start", "end"} |->
        IF body[k].t = "ok" THEN Ok ELSE Fail(BAD_REQUEST, "Invalid ${key}.", k)]

newScheduleSlotTable == <<Entry("day", TRUE), Entry("start", TRUE), Entry("end", TRUE)>>

\* global validator of newScheduleSlotValidator
newScheduleSlotGlobal(body, scheduleId) ==
    IF doesSlotOverlap(scheduleId, body.day.v, body.start.v, body.end.v)
    THEN Fail(CONFLICT, "Time slot overlaps with another.", "")
    ELSE Ok

newScheduleSlotValidator(body, scheduleId) ==
    LET fields == slotFieldResult(body)
        allOk == \A k \in {"day", "start", "end"} : fields[k].ok
    IN  validate(newScheduleSlotTable, body, fields,
                 IF allOk THEN newScheduleSlotGlobal(body, scheduleId) ELSE Ok)

\* fields of scheduleSlotUpdateValidator: all three declared as bare functions
scheduleSlotUpdateTable == <<BareEntry("day"), BareEntry("start"), BareEntry("end")>>

slotUpdateFieldResult(body) ==
    [k \in {"day", "start", "end"} |->
        IF IsAbsent(body[k]) THEN Ok ELSE slotFieldResult(body)[k]]

\* the row the update would leave: object.day ?? timeSlot.day, and so on
mergedSlot(body, timeSlot) ==
    [timeSlot EXCEPT
        !.day = IF IsAbsent(body.day) THEN @ ELSE body.day.v,
        !.start = IF IsAbsent(body.start) THEN @ ELSE body.start.v,
        !.end = IF IsAbsent(body.end) THEN @ ELSE body.end.v]

\* global validator of scheduleSlotUpdateValidator
scheduleSlotUpdateGlobal(body, timeSlot) ==
    LET new == mergedSlot(body, timeSlot)
    IN  IF doesSlotOverlap(timeSlot.schedule_id, new.day, new.start, new.end)
        THEN Fail(CONFLICT, "Time slot overlaps with another.", "")
        ELSE IF \E a \in appointment : a.time_slot_id = timeSlot.id
        THEN Fail(CONFLICT, "Time slot has appointments associated.", "")
        ELSE Ok

scheduleSlotUpdateValidator(body, timeSlot) ==
    LET fields == slotUpdateFieldResult(body)
        allOk == \A k \in {"day", "start", "end"} : fields[k].ok
    IN  validate(scheduleSlotUpdateTable, body, fields,
                 IF allOk THEN scheduleSlotUpdateGlobal(body, timeSlot) ELSE Ok)

\* time_slot_insert_check_trigger and time_slot_update_check_trigger: the
\* conflict query over the rows of the table as they are before the statement
slotTriggerConflict(new) ==
    \E t \in time_slot :
        /\ t.schedule_id = new.schedule_id
        /\ t.day = new.day
        /\ t.active
        /\ \/ t.start = new.start
           \/ t.end = new.end
           \/ (t.start < new.start /\ new.start < t.end)
           \/ (t.start < new.end /\ new.end < t.end)
           \/ (new.start < t.start /\ t.end < new.end)
           \/ (t.start < new.start /\ new.end < t.end)

\* check (start < end) of table time_slot
slotCheckConstraint(row) == row.start < row.end

\* a variant of canInsertTimeSlot for a table without check (start < end)
canInsertTimeSlotNoCheck(new) == ~slotTriggerConflict(new)

\* insert into time_slot: TRUE when the statement succeeds
canInsertTimeSlot(new) == ~slotTriggerConflict(new) /\ slotCheckConstraint(new)

\* update time_slot: TRUE when the statement succeeds
canUpdateTimeSlot(new) == ~slotTriggerConflict(new) /\ slotCheckConstraint(new)

\* delete from time_slot: time_slot_delete_check_trigger
canDeleteTimeSlot(old) == ~\E a \in appointment : a.time_slot_id = old.id

-----------------------------------------------------------------------------
(* Handlers of the schedule-slot endpoints *)

Success(status) == [ok |-> TRUE, status |-> status, message |-> "", key |-> ""]

\* a query rejected by the database (a trigger's signal, a violated constraint,
\* a statement MySQL refuses): the handler's promise rejects
DbError(message) ==
    [ok |-> FALSE, status |-> UNHANDLED_REJECTION, message |-> message, key |-> ""]

Request(op, header, json, rut, id, body) ==
    [op |-> op, header |-> header, json |-> json, rut |-> rut, id |-> id, body |-> body]

NoBody == [none |-> TRUE]
NoRequest == Request("", NoHeader, TRUE, "", NULL, NoBody)

\* the identity check every /medics/:rut handler repeats
medicIdentityOk(header, rut) ==
    ~(getToken(header).type = "MEDIC" /\ getToken(header).rut # rut)

newSlotRow(req) ==
    [id |-> slotAutoInc, schedule_id |-> medic[req.rut], day |-> req.body.day.v,
     start |-> req.body.start.v, end |-> req.body.end.v, active |-> TRUE]

\* a variant of createMedicScheduleSlotResult that stores the row without the
\* validator and with the trigger disabled
createMedicScheduleSlotUnchecked(req) ==
    IF req.json /\ isAuthorized(req.header, requiresAuthorization[req.op])
       /\ req.rut \in DOMAIN medic /\ medicIdentityOk(req.header, req.rut)
       /\ (\A k \in {"day", "start", "end"} : req.body[k].t = "ok")
       /\ slotCheckConstraint(newSlotRow(req))
    THEN Success(CREATED)
    ELSE InvalidSessionToken

\* POST /medics/:rut/schedule/slots
createMedicScheduleSlotResult(req) ==
    IF ~makeMethodDecorator(req).ok THEN makeMethodDecorator(req)
    ELSE IF ~isValidRut(req.rut) THEN Fail(BAD_REQUEST, "Invalid rut.", "")
    ELSE IF ~medicIdentityOk(req.header, req.rut) THEN InvalidSessionToken
    ELSE IF req.rut \notin DOMAIN medic
        THEN Fail(NOT_FOUND, "Medic ${rut} does not exist.", "")
    ELSE LET validationResult == newScheduleSlotValidator(req.body, medic[req.rut])
         IN  IF ~validationResult.ok THEN validationResult
             ELSE IF ~canInsertTimeSlot(newSlotRow(req))
                 THEN DbError("insert into time_slot rejected")
             ELSE Success(CREATED)

createMedicScheduleSlot(header, json, rut, body) ==
    LET req == Request("medics.createMedicScheduleSlot", header, json, rut, NULL, body)
        res == createMedicScheduleSlotResult(req)
    IN  /\ slotAutoInc <= MaxSlotId
        /\ request' = req
        /\ response' = res
        /\ time_slot' = IF res.ok THEN time_slot \cup {newSlotRow(req)} ELSE time_slot
        /\ slotAutoInc' = IF res.ok THEN slotAutoInc + 1 ELSE slotAutoInc
        /\ UNCHANGED <<appointment, appointmentAutoInc, tokens, session_token, now, pending>>

slotById(id) == CHOOSE t \in time_slot : t.id = id

\* PATCH /medics/:rut/schedule/slots/:id
updateMedicScheduleSlotResult(req) ==
    IF ~makeMethodDecorator(req).ok THEN makeMethodDecorator(req)
    ELSE IF ~isValidRut(req.rut) THEN Fail(BAD_REQUEST, "Invalid rut.", "")
    ELSE IF ~medicIdentityOk(req.header, req.rut) THEN InvalidSessionToken
    ELSE IF req.id <= 0 THEN Fail(BAD_REQUEST, "Invalid schedule slot id.", "")
    ELSE IF req.rut \notin DOMAIN medic
        THEN Fail(NOT_FOUND, "Medic ${rut} does not exist.", "")
    ELSE IF ~\E t \in time_slot : t.id = req.id
        THEN Fail(NOT_FOUND, "Time slot ${id} does not exist.", "")
    ELSE LET timeSlot == slotById(req.id)
             validationResult == scheduleSlotUpdateValidator(req.body, timeSlot)
             new == mergedSlot(req.body, timeSlot)
         IN  IF ~validationResult.ok THEN validationResult
             ELSE IF ~canUpdateTimeSlot(new)
                 THEN DbError("update time_slot rejected")
             ELSE IF new = timeSlot THEN Success(NOT_MODIFIED)
             ELSE Success(NO_CONTENT)

updateMedicScheduleSlot(header, rut, id, body) ==
    LET req == Request("medics.updateMedicScheduleSlot", header, TRUE, rut, id, body)
        res == updateMedicScheduleSlotResult(req)
    IN  /\ request' = req
        /\ response' = res
        /\ time_slot' = IF res.ok
                        THEN (time_slot \ {slotById(id)}) \cup {mergedSlot(body, slotById(id))}
                        ELSE time_slot
        /\ UNCHANGED <<appointment, slotAutoInc, appointmentAutoInc, tokens,
                       session_token, now, pending>>

\* DELETE /medics/:rut/schedule/slots/:id
deleteMedicScheduleSlotResult(req) ==
    IF ~makeMethodDecorator(req).ok THEN makeMethodDecorator(req)
    ELSE IF ~isValidRut(req.rut) THEN Fail(BAD_REQUEST, "Invalid rut.", "")
    ELSE IF ~medicIdentityOk(req.header, req.rut) THEN InvalidSessionToken
    ELSE IF req.id <= 0 THEN Fail(BAD_REQUEST, "Invalid schedule slot id.", "")
    ELSE IF req.rut \notin DOMAIN medic
        THEN Fail(NOT_FOUND, "Medic ${rut} does not exist.", "")
    ELSE IF ~\E t \in time_slot : t.id = req.id
        THEN Fail(NOT_FOUND, "Time slot ${id} does not exist.", "")
    ELSE IF \E a \in appointment : a.time_slot_id = req.id
        THEN Fail(CONFLICT, "Time slot has appointments associated.", "")
    ELSE IF ~canDeleteTimeSlot(slotById(req.id))
        THEN DbError("delete from time_slot rejected")
    ELSE Success(NO_CONTENT)

deleteMedicScheduleSlot(header, rut, id) ==
    LET req == Request("medics.deleteMedicScheduleSlot", header, TRUE, rut, id, NoBody)
        res == deleteMedicScheduleSlotResult(req)
    IN  /\ request' = req
        /\ response' = res
        /\ time_slot' = IF res.ok THEN {t \in time_slot : t.id # id} ELSE time_slot
        /\ UNCHANGED <<appointment, slotAutoInc, appointmentAutoInc, tokens,
                       session_token, now, pending>>

-----------------------------------------------------------------------------
(* Appointments: the validators of PatientsEndpoint and MedicsEndpoint *)

\* new Date(date).getUTCDay(): 0 is Sunday (date 0 is a Monday)
getUTCDay(date) == (date + 1) % 7

\* MySQL weekday(date): 0 is Monday
weekday(date) == date % 7

\* const days of PatientsEndpoint and of MedicsEndpoint
patientsDays == <<"su", "mo", "tu", "we", "th", "fr", "sa">>
medicsDays == <<"mo", "tu", "we", "th", "fr", "sa", "su">>

\* day of the date as each global validator computes it (arrays are 0-based)
patientsDayOf(date) == patientsDays[getUTCDay(date) + 1]
medicsDayOf(date) == medicsDays[((getUTCDay(date) + 1) % 7) + 1]

\* the medic joined to a time slot: medic.schedule_id = time_slot.schedule_id
medicOfSlot(t) == CHOOSE m \in DOMAIN medic : medic[m] = t.schedule_id

\* the six clauses of the appointment overlap queries, t1 the stored
\* appointment's slot and t2 the candidate slot, in the order of the source
appointmentClauses(t1, t2) ==
    \/ t1.start = t2.start
    \/ t1.end = t2.end
    \/ (t1.start < t2.start /\ t2.start < t1.end)
    \/ (t1.start < t2.end /\ t2.end < t1.end)
    \/ (t2.start < t1.start /\ t1.end < t2.end)
    \/ (t1.start < t2.start /\ t2.end < t1.end)

\* a variant of doesAppointmentOverlap that looks at the medic only
doesAppointmentOverlapMedicOnly(date, timeSlotId, patientRut) ==
    \E a \in appointment : \E t1 \in time_slot : \E t2 \in time_slot :
        /\ t1.id = a.time_slot_id
        /\ t2.id = timeSlotId
        /\ a.date = date
        /\ medicOfSlot(t1) = medicOfSlot(t2)
        /\ appointmentClauses(t1, t2)

\* the doesOverlap query of both newAppointmentValidators
doesAppointmentOverlap(date, timeSlotId, patientRut) ==
    \E a \in appointment : \E t1 \in time_slot : \E t2 \in time_slot :
        /\ t1.id = a.time_slot_id
        /\ t2.id = timeSlotId
        /\ t1.schedule_id \in Schedules /\ t2.schedule_id \in Schedules
        /\ a.date = date
        /\ (a.patient_rut = patientRut \/ medicOfSlot(t1) = medicOfSlot(t2))
        /\ appointmentClauses(t1, t2)

\* field validators shared by the two newAppointmentValidators
dateFieldResult(x) ==
    IF x.t = "ok" /\ x.v >= now.date THEN Ok ELSE Fail(BAD_REQUEST, "Invalid ${key}.", "date")

descriptionFieldResult(x) ==
    IF x.t = "ok" THEN Ok ELSE Fail(BAD_REQUEST, "Invalid ${key}.", "description")

timeSlotIdFieldResult(x) ==
    IF x.t = "ok" /\ x.v > 0 /\ (\E t \in time_slot : t.id = x.v /\ t.active = TRUE)
    THEN Ok ELSE Fail(BAD_REQUEST, "Invalid ${key}.", "timeSlotId")

patientRutFieldResult(x) ==
    IF x.t = "ok" /\ isValidRut(x.v) /\ x.v \in Patients
    THEN Ok ELSE Fail(BAD_REQUEST, "Invalid ${key}.", "patientRut")

\* a variant of patientsNewAppointmentGlobal without the overlap query
patientsNewAppointmentGlobalNoOverlap(date, timeSlotId, patientRut) ==
    LET t == slotById(timeSlotId)
    IN  IF ~(t.day = patientsDayOf(date))
            THEN Fail(CONFLICT, "Appointment day and time slot day do not match.", "")
        ELSE IF date < now.date \/ (date = now.date /\ t.start < now.time)
            THEN Fail(CONFLICT, "Time slot has already started.", "")
        ELSE Ok

\* global validator of PatientsEndpoint.newAppointmentValidator
patientsNewAppointmentGlobal(date, timeSlotId, patientRut) ==
    LET t == slotById(timeSlotId)
        doesDayMatch == (t.day = patientsDayOf(date))
        hasAlreadyStarted == date < now.date \/ (date = now.date /\ t.start < now.time)
    IN  IF ~doesDayMatch
            THEN Fail(CONFLICT, "Appointment day and time slot day do not match.", "")
        ELSE IF hasAlreadyStarted
            THEN Fail(CONFLICT, "Time slot has already started.", "")
        ELSE IF doesAppointmentOverlap(date, timeSlotId, patientRut)
            THEN Fail(CONFLICT, "Appointment overlaps with another.", "")
        ELSE Ok

\* global validator of MedicsEndpoint.newAppointmentValidator
medicsNewAppointmentGlobal(date, timeSlotId, patientRut) ==
    LET t == slotById(timeSlotId)
        doesDayMatch == (t.day = medicsDayOf(date))
        hasAlreadyStarted == (now.date = date /\ t.start < now.time)
    IN  IF ~doesDayMatch
            THEN Fail(CONFLICT, "Appointment day and time slot day do not match.", "")
        ELSE IF hasAlreadyStarted
            THEN Fail(CONFLICT, "Time slot has already started.", "")
        ELSE IF doesAppointmentOverlap(date, timeSlotId, patientRut)
            THEN Fail(CONFLICT, "Appointment overlaps with another.", "")
        ELSE Ok

patientsNewAppointmentTable ==
    <<Entry("date", TRUE), Entry("description", TRUE), Entry("timeSlotId", TRUE)>>

medicsNewAppointmentTable ==
    <<Entry("patientRut", TRUE), Entry("date", TRUE), Entry("description", TRUE),
      Entry("timeSlotId", TRUE)>>

newAppointmentFieldResult(body) ==
    [k \in {"patientRut", "date", "description", "timeSlotId"} |->
        CASE k = "patientRut" -> patientRutFieldResult(body.patientRut)
          [] k = "date" -> dateFieldResult(body.date)
          [] k = "description" -> descriptionFieldResult(body.description)
          [] k = "timeSlotId" -> timeSlotIdFieldResult(body.timeSlotId)]

patientsNewAppointmentValidator(body, patientRut) ==
    LET fields == newAppointmentFieldResult(body)
        allOk == \A k \in {"date", "description", "timeSlotId"} : fields[k].ok
    IN  validate(patientsNewAppointmentTable, body, fields,
                 IF allOk
                 THEN patientsNewAppointmentGlobal(body.date.v, body.timeSlotId.v, patientRut)
                 ELSE Ok)

medicsNewAppointmentValidator(body) ==
    LET fields == newAppointmentFieldResult(body)
        allOk == \A k \in {"patientRut", "date", "description", "timeSlotId"} : fields[k].ok
    IN  validate(medicsNewAppointmentTable, body, fields,
                 IF allOk
                 THEN medicsNewAppointmentGlobal(body.date.v, body.timeSlotId.v,
                                                 body.patientRut.v)
                 ELSE Ok)

\* a variant of canInsertAppointment with the insert trigger disabled: the
\* primary key and the foreign keys remain
canInsertAppointmentKeysOnly(new) ==
    /\ \E t \in time_slot : t.id = new.time_slot_id
    /\ new.patient_rut \in Patients
    /\ ~\E a \in appointment : a.time_slot_id = new.time_slot_id /\ a.date = new.date

\* appointment_insert_check_trigger, the primary key (time_slot_id, date) and
\* the foreign keys of table appointment: TRUE when the insert succeeds
canInsertAppointment(new) ==
    /\ \E t \in time_slot : t.id = new.time_slot_id
    /\ new.patient_rut \in Patients
    /\ ~(new.date < now.date)
    /\ slotById(new.time_slot_id).active
    /\ slotById(new.time_slot_id).day = Days[weekday(new.date) + 1]
    /\ ~(new.date = now.date /\ now.time > slotById(new.time_slot_id).start)
    /\ ~doesAppointmentOverlap(new.date, new.time_slot_id, new.patient_rut)
    /\ ~\E a \in appointment : a.time_slot_id = new.time_slot_id /\ a.date = new.date

-----------------------------------------------------------------------------
(* Appointments: the update validators *)

\* every entry of both appointmentUpdateValidators is a bare function
appointmentUpdateTable ==
    <<BareEntry("date"), BareEntry("description"), BareEntry("timeSlotId"),
      BareEntry("confirmed")>>

confirmedFieldResult(x) ==
    IF x.t = "undefined" \/ x.t = "ok" THEN Ok
    ELSE Fail(CONFLICT, "Appointment ${key} status can only be changed from false to true.",
              "confirmed")

appointmentUpdateFieldResult(body) ==
    [k \in {"date", "description", "timeSlotId", "confirmed"} |->
        CASE k = "date" ->
                IF IsAbsent(body.date) THEN Ok ELSE dateFieldResult(body.date)
          [] k = "description" ->
                IF IsAbsent(body.description) THEN Ok
                ELSE descriptionFieldResult(body.description)
          [] k = "timeSlotId" ->
                IF IsAbsent(body.timeSlotId) THEN Ok
                ELSE timeSlotIdFieldResult(body.timeSlotId)
          [] k = "confirmed" -> confirmedFieldResult(body.confirmed)]

\* { ...oldAppointment, ...appointment } and the row the update would store
mergedAppointment(body, old) ==
    [old EXCEPT
        !.date = IF IsAbsent(body.date) THEN @ ELSE body.date.v,
        !.description = IF IsAbsent(body.description) THEN @ ELSE body.description.v,
        !.time_slot_id = IF IsAbsent(body.timeSlotId) THEN @ ELSE body.timeSlotId.v,
        !.confirmed = IF IsAbsent(body.confirmed) THEN @ ELSE (body.confirmed.t = "ok")]

\* the didMedicChange query of PatientsEndpoint.appointmentUpdateValidator:
\* it joins every stored appointment, not the one being updated
didMedicChange(timeSlotId) ==
    \E a \in appointment : \E t1 \in time_slot : \E t2 \in time_slot :
        /\ t1.id = a.time_slot_id
        /\ t2.id = timeSlotId
        /\ t1.schedule_id \in Schedules /\ t2.schedule_id \in Schedules
        /\ medicOfSlot(t1) # medicOfSlot(t2)

\* global validator of PatientsEndpoint.appointmentUpdateValidator (the call of
\* newAppointmentValidator.globalValidator is commented out in the source)
patientsAppointmentUpdateGlobal(body, oldAppointment) ==
    IF Falsy(body.timeSlotId) \/ body.timeSlotId.v = oldAppointment.time_slot_id THEN Ok
    ELSE IF didMedicChange(body.timeSlotId.v)
        THEN Fail(CONFLICT, "Cannot change assigned medic.", "")
    ELSE Ok

\* global validator of MedicsEndpoint.appointmentUpdateValidator: the new
\* appointment's global validator on the merged object, whose patientRut is
\* the third argument of validate, the :rut of the path
medicsAppointmentUpdateGlobal(body, oldAppointment, patientRut) ==
    LET merged == mergedAppointment(body, oldAppointment)
    IN  medicsNewAppointmentGlobal(merged.date, merged.time_slot_id, patientRut)

patientsAppointmentUpdateValidator(body, oldAppointment) ==
    validate(appointmentUpdateTable, body, appointmentUpdateFieldResult(body),
             patientsAppointmentUpdateGlobal(body, oldAppointment))

medicsAppointmentUpdateValidator(body, oldAppointment, patientRut) ==
    validate(appointmentUpdateTable, body, appointmentUpdateFieldResult(body),
             medicsAppointmentUpdateGlobal(body, oldAppointment, patientRut))

\* update of a row of appointment: there is no update trigger; the primary key
\* (time_slot_id, date) and the foreign key of time_slot_id remain, and an
\* update with no column to set is not a statement
canUpdateAppointment(body, old) ==
    LET new == mergedAppointment(body, old)
    IN  /\ ~\A k \in {"date", "description", "timeSlotId", "confirmed"} : IsAbsent(body[k])
        /\ \E t \in time_slot : t.id = new.time_slot_id
        /\ new.description # ""
        /\ ~\E a \in appointment :
               a.id # old.id /\ a.time_slot_id = new.time_slot_id /\ a.date = new.date

-----------------------------------------------------------------------------
(* Handlers of the appointment endpoints *)

\* the identity check every /patients/:rut handler repeats
patientIdentityOk(header, rut) ==
    ~(getToken(header).type = "PATIENT" /\ getToken(header).rut # rut)

\* a variant of newAppointmentRow whose confirmed defaults to true
newAppointmentRowConfirmed(body, patientRut) ==
    [id |-> appointmentAutoInc, time_slot_id |-> body.timeSlotId.v, date |-> body.date.v,
     patient_rut |-> patientRut, description |-> body.description.v, confirmed |-> TRUE]

\* the row an insert stores: id from auto_increment, confirmed by default false
newAppointmentRow(body, patientRut) ==
    [id |-> appointmentAutoInc, time_slot_id |-> body.timeSlotId.v, date |-> body.date.v,
     patient_rut |-> patientRut, description |-> body.description.v, confirmed |-> FALSE]

\* a variant of patientsCreateAppointmentResult that stores the row without the
\* global validator and with the insert trigger disabled
patientsCreateAppointmentUnchecked(req) ==
    IF req.json /\ isAuthorized(req.header, requiresAuthorization[req.op])
       /\ req.rut \in Patients /\ patientIdentityOk(req.header, req.rut)
       /\ (\A k \in {"date", "description", "timeSlotId"} :
              newAppointmentFieldResult(req.body)[k].ok)
       /\ ~\E a \in appointment :
              a.time_slot_id = req.body.timeSlotId.v /\ a.date = req.body.date.v
    THEN Success(CREATED)
    ELSE InvalidSessionToken

\* POST /patients/:rut/appointments
patientsCreateAppointmentResult(req) ==
    IF ~makeMethodDecorator(req).ok THEN makeMethodDecorator(req)
    ELSE IF ~isValidRut(req.rut) THEN Fail(BAD_REQUEST, "Invalid rut.", "")
    ELSE IF ~patientIdentityOk(req.header, req.rut) THEN InvalidSessionToken
    ELSE IF req.rut \notin Patients
        THEN Fail(NOT_FOUND, "Patient ${rut} does not exist.", "")
    ELSE LET validationResult == patientsNewAppointmentValidator(req.body, req.rut)
         IN  IF ~validationResult.ok THEN validationResult
             ELSE IF ~\E t \in time_slot :
                        t.id = req.body.timeSlotId.v /\ t.schedule_id \in Schedules
                 THEN Fail(NOT_FOUND, "Time slot ${timeSlotId} does not exist.", "")
             ELSE IF ~canInsertAppointment(newAppointmentRow(req.body, req.rut))
                 THEN DbError("insert into appointment rejected")
             ELSE Success(CREATED)

patientsCreateAppointment(header, json, rut, body) ==
    LET req == Request("patients.createAppointment", header, json, rut, NULL, body)
        res == patientsCreateAppointmentResult(req)
    IN  /\ appointmentAutoInc <= MaxAppointmentId
        /\ request' = req
        /\ response' = res
        /\ appointment' = IF res.ok
                          THEN appointment \cup {newAppointmentRow(body, rut)}
                          ELSE appointment
        /\ appointmentAutoInc' = IF res.ok THEN appointmentAutoInc + 1 ELSE appointmentAutoInc
        /\ UNCHANGED <<time_slot, slotAutoInc, tokens, session_token, now, pending>>

\* POST /medics/:rut/appointments
medicsCreateAppointmentResult(req) ==
    IF ~makeMethodDecorator(req).ok THEN makeMethodDecorator(req)
    ELSE IF ~isValidRut(req.rut) THEN Fail(BAD_REQUEST, "Invalid rut.", "")
    ELSE IF ~medicIdentityOk(req.header, req.rut) THEN InvalidSessionToken
    ELSE IF req.rut \notin DOMAIN medic
        THEN Fail(NOT_FOUND, "Medic ${rut} does not exist.", "")
    ELSE LET validationResult == medicsNewAppointmentValidator(req.body)
         IN  IF ~validationResult.ok THEN validationResult
             ELSE IF ~canInsertAppointment(newAppointmentRow(req.body, req.body.patientRut.v))
                 THEN DbError("insert into appointment rejected")
             ELSE Success(CREATED)

medicsCreateAppointment(header, json, rut, body) ==
    LET req == Request("medics.createAppointment", header, json, rut, NULL, body)
        res == medicsCreateAppointmentResult(req)
    IN  /\ appointmentAutoInc <= MaxAppointmentId
        /\ request' = req
        /\ response' = res
        /\ appointment' = IF res.ok
                          THEN appointment \cup {newAppointmentRow(body, body.patientRut.v)}
                          ELSE appointment
        /\ appointmentAutoInc' = IF res.ok THEN appointmentAutoInc + 1 ELSE appointmentAutoInc
        /\ UNCHANGED <<time_slot, slotAutoInc, tokens, session_token, now, pending>>

\* the appointment lookup of the /patients/:rut/appointments/:id handlers:
\* where a.id = :id and a.patient_rut = :rut
patientsAppointmentExists(id, rut) ==
    \E a \in appointment : a.id = id /\ a.patient_rut = rut

appointmentById(id) == CHOOSE a \in appointment : a.id = id

\* PATCH /patients/:rut/appointments/:id
patientsUpdateAppointmentResult(req) ==
    IF ~makeMethodDecorator(req).ok THEN makeMethodDecorator(req)
    ELSE IF ~isValidRut(req.rut) THEN Fail(BAD_REQUEST, "Invalid rut.", "")
    ELSE IF ~patientIdentityOk(req.header, req.rut) THEN InvalidSessionToken
    ELSE IF req.id <= 0 THEN Fail(BAD_REQUEST, "Invalid appointment id.", "")
    ELSE IF req.rut \notin Patients
        THEN Fail(NOT_FOUND, "Patient ${rut} does not exist.", "")
    ELSE IF ~patientsAppointmentExists(req.id, req.rut)
        THEN Fail(NOT_FOUND, "Appointment ${id} for patient ${rut} does not exist.", "")
    ELSE LET old == appointmentById(req.id)
             validationResult == patientsAppointmentUpdateValidator(req.body, old)
         IN  IF ~validationResult.ok THEN validationResult
             ELSE IF ~canUpdateAppointment(req.body, old)
                 THEN DbError("update appointment rejected")
             ELSE IF mergedAppointment(req.body, old) = old THEN Success(NOT_MODIFIED)
             ELSE Success(NO_CONTENT)

patientsUpdateAppointment(header, rut, id, body) ==
    LET req == Request("patients.updateAppointment", header, TRUE, rut, id, body)
        res == patientsUpdateAppointmentResult(req)
    IN  /\ request' = req
        /\ response' = res
        /\ appointment' = IF res.ok
                          THEN (appointment \ {appointmentById(id)})
                               \cup {mergedAppointment(body, appointmentById(id))}
                          ELSE appointment
        /\ UNCHANGED <<time_slot, slotAutoInc, appointmentAutoInc, tokens,
                       session_token, now, pending>>

\* DELETE /patients/:rut/appointments/:id
patientsDeleteAppointmentResult(req) ==
    IF ~makeMethodDecorator(req).ok THEN makeMethodDecorator(req)
    ELSE IF ~isValidRut(req.rut) THEN Fail(BAD_REQUEST, "Invalid rut.", "")
    ELSE IF ~patientIdentityOk(req.header, req.rut) THEN InvalidSessionToken
    ELSE IF req.id <= 0 THEN Fail(BAD_REQUEST, "Invalid appointment id.", "")
    ELSE IF req.rut \notin Patients
        THEN Fail(NOT_FOUND, "Patient ${rut} does not exist.", "")
    ELSE IF ~patientsAppointmentExists(req.id, req.rut)
        THEN Fail(NOT_FOUND, "Appointment ${id} for patient ${rut} does not exist.", "")
    ELSE Success(NO_CONTENT)

patientsDeleteAppointment(header, rut, id) ==
    LET req == Request("patients.deleteAppointment", header, TRUE, rut, id, NoBody)
        res == patientsDeleteAppointmentResult(req)
    IN  /\ request' = req
        /\ response' = res
        /\ appointment' = IF res.ok THEN {a \in appointment : a.id # id} ELSE appointment
        /\ UNCHANGED <<time_slot, slotAutoInc, appointmentAutoInc, tokens,
                       session_token, now, pending>>

\* the appointment lookup of the /medics/:rut/appointments/:id handlers joins
\* appointment as a, time_slot as t and medic as m and filters with
\* where("id", "=", idString): both a and t have a column id, so MySQL refuses
\* the statement (column 'id' in where clause is ambiguous) and the query
\* rejects whatever the tables hold
medicsAppointmentLookup(id, rut) ==
    DbError("Column 'id' in where clause is ambiguous")

\* PATCH /medics/:rut/appointments/:id
medicsUpdateAppointmentResult(req) ==
    IF ~makeMethodDecorator(req).ok THEN makeMethodDecorator(req)
    ELSE IF ~isValidRut(req.rut) THEN Fail(BAD_REQUEST, "Invalid rut.", "")
    ELSE IF ~medicIdentityOk(req.header, req.rut) THEN InvalidSessionToken
    ELSE IF req.id <= 0 THEN Fail(BAD_REQUEST, "Invalid appointment id.", "")
    ELSE IF req.rut \notin DOMAIN medic
        THEN Fail(NOT_FOUND, "Medic ${rut} does not exist.", "")
    ELSE LET lookup == medicsAppointmentLookup(req.id, req.rut)
         IN  IF ~lookup.ok THEN lookup
             ELSE LET old == appointmentById(req.id)
                      validationResult ==
                          medicsAppointmentUpdateValidator(req.body, old, req.rut)
                  IN  IF ~validationResult.ok THEN validationResult
                      ELSE IF ~canUpdateAppointment(req.body, old)
                          THEN DbError("update appointment rejected")
                      ELSE IF mergedAppointment(req.body, old) = old
                          THEN Success(NOT_MODIFIED)
                      ELSE Success(NO_CONTENT)

medicsUpdateAppointment(header, rut, id, body) ==
    LET req == Request("medics.updateAppointment", header, TRUE, rut, id, body)
        res == medicsUpdateAppointmentResult(req)
    IN  /\ request' = req
        /\ response' = res
        /\ appointment' = IF res.ok
                          THEN (appointment \ {appointmentById(id)})
                               \cup {mergedAppointment(body, appointmentById(id))}
                          ELSE appointment
        /\ UNCHANGED <<time_slot, slotAutoInc, appointmentAutoInc, tokens,
                       session_token, now, pending>>

\* DELETE /medics/:rut/appointments/:id
medicsDeleteAppointmentResult(req) ==
    IF ~makeMethodDecorator(req).ok THEN makeMethodDecorator(req)
    ELSE IF ~isValidRut(req.rut) THEN Fail(BAD_REQUEST, "Invalid rut.", "")
    ELSE IF ~medicIdentityOk(req.header, req.rut) THEN InvalidSessionToken
    ELSE IF req.id <= 0 THEN Fail(BAD_REQUEST, "Invalid appointment id.", "")
    ELSE IF req.rut \notin DOMAIN medic
        THEN Fail(NOT_FOUND, "Medic ${rut} does not exist.", "")
    ELSE LET lookup == medicsAppointmentLookup(req.id, req.rut)
         IN  IF ~lookup.ok THEN lookup ELSE Success(NO_CONTENT)

medicsDeleteAppointment(header, rut, id) ==
    LET req == Request("medics.deleteAppointment", header, TRUE, rut, id, NoBody)
        res == medicsDeleteAppointmentResult(req)
    IN  /\ request' = req
        /\ response' = res
        /\ appointment' = IF res.ok THEN {a \in appointment : a.id # id} ELSE appointment
        /\ UNCHANGED <<time_slot, slotAutoInc, appointmentAutoInc, tokens,
                       session_token, now, pending>>

\* the clock advances within the day: current_time() grows; no request is
\* being handled
Tick ==
    /\ now.time < MaxNow
    /\ now' = [now EXCEPT !.time = @ + 1]
    /\ request' = NoRequest
    /\ response' = Ok
    /\ UNCHANGED <<time_slot, appointment, slotAutoInc, appointmentAutoInc, tokens,
                   session_token, pending>>

-----------------------------------------------------------------------------
(* Initial state: the database as the schema script seeds it, scaled down to
   two patients, two medics with schedules 1 and 2, one administrator, four
   active time slots and one confirmed appointment set on next Monday; every
   subject holds a session.  Date 1, today, is a Tuesday. *)

Slot(id, schedule_id, day, start, end) ==
    [id |-> id, schedule_id |-> schedule_id, day |-> day, start |-> start, end |-> end,
     active |-> TRUE]

TokenOf == [s \in Subjects |->
              CASE s = "P1" -> 1 [] s = "P2" -> 2 [] s = "M1" -> 3
                [] s = "M2" -> 4 [] s = "A1" -> 5]

Init ==
    /\ time_slot = {Slot(1, 1, "mo", 0, 1), Slot(2, 1, "mo", 1, 2),
                    Slot(3, 2, "mo", 0, 2), Slot(4, 2, "tu", 1, 2)}
    /\ slotAutoInc = 5
    /\ appointment = {[id |-> 1, time_slot_id |-> 1, date |-> 7, patient_rut |-> "P1",
                       description |-> "Lorem ipsum", confirmed |-> TRUE]}
    /\ appointmentAutoInc = 2
    /\ tokens = {[token |-> TokenOf[s], rut |-> s, type |-> TypeOfSubject(s)] : s \in Subjects}
    /\ session_token = TokenOf
    /\ now = [date |-> 1, time |-> 0]
    /\ pending = {}
    /\ request = NoRequest
    /\ response = Ok

\* encoded body fields
Value(v) == [t |-> "ok", v |-> v]
UndefinedNumber == [t |-> "undefined", v |-> 0]
UndefinedString == [t |-> "undefined", v |-> ""]
UndefinedBoolean == [t |-> "undefined", v |-> FALSE]

-----------------------------------------------------------------------------
(* Requests on the schedule-slot endpoints *)

SlotBody(day, start, end) == [day |-> day, start |-> start, end |-> end]

\* candidate slots: every (start, end) of the grid on Monday, one on Tuesday,
\* a body without day and a body whose start is not a time
NewSlotBodies ==
    {SlotBody(Value("mo"), Value(s), Value(e)) : s \in Times, e \in Times}
    \cup {SlotBody(Value("tu"), Value(0), Value(1)),
          SlotBody(UndefinedString, Value(0), Value(1)),
          SlotBody(Value("mo"), [t |-> "bad", v |-> 0], Value(1))}

SlotUpdateBodies ==
    {SlotBody(UndefinedString, UndefinedNumber, UndefinedNumber),
     SlotBody(UndefinedString, Value(2), Value(3))}

\* who asks for whom: medic M1 for their own schedule, the administrator for
\* M2's; then one request per check that refuses
NominalSlotCallers == {<<Bearer(TokenOf["M1"]), "M1">>, <<Bearer(TokenOf["A1"]), "M2">>}
RefusedSlotCallers ==
    {<<NoHeader, "M1">>, <<Bearer(TokenOf["P1"]), "M1">>, <<Bearer(TokenOf["M1"]), "M2">>,
     <<Bearer(TokenOf["A1"]), UnknownRut>>, <<Bearer(TokenOf["A1"]), InvalidRut>>}

ProbeSlotBody == SlotBody(Value("mo"), Value(2), Value(3))

NextSlots ==
    \/ \E caller \in NominalSlotCallers, body \in NewSlotBodies :
          createMedicScheduleSlot(caller[1], TRUE, caller[2], body)
    \/ \E caller \in NominalSlotCallers \cup RefusedSlotCallers, json \in BOOLEAN :
          /\ caller \in RefusedSlotCallers \/ ~json
          /\ createMedicScheduleSlot(caller[1], json, caller[2], ProbeSlotBody)
    \/ \E caller \in NominalSlotCallers, id \in {0, 1, 2, slotAutoInc},
          body \in SlotUpdateBodies :
          updateMedicScheduleSlot(caller[1], caller[2], id, body)
    \/ \E caller \in NominalSlotCallers \cup RefusedSlotCallers,
          id \in {0, 1, 2, slotAutoInc - 1} :
          deleteMedicScheduleSlot(caller[1], caller[2], id)

SpecSlots == Init /\ [][NextSlots]_vars

-----------------------------------------------------------------------------
(* Requests on the appointment endpoints *)

AppointmentBody(patientRut, date, description, timeSlotId, confirmed) ==
    [patientRut |-> patientRut, date |-> date, description |-> description,
     timeSlotId |-> timeSlotId, confirmed |-> confirmed]

\* dates asked for: last Monday, today (a Tuesday), next Sunday, next Monday,
\* next Tuesday
RequestDates == {0, 1, 6, 7, 8}

\* bodies of POST /patients/:rut/appointments
PatientsNewAppointmentBodies ==
    {AppointmentBody(UndefinedString, Value(d), Value("text"), Value(t), UndefinedBoolean) :
        d \in RequestDates \ {6}, t \in {1, 2, 3, 4, MaxSlotId + 1}}
    \cup {AppointmentBody(UndefinedString, UndefinedNumber, Value("text"), Value(1),
                          UndefinedBoolean)}

\* bodies of POST /medics/:rut/appointments
MedicsNewAppointmentBodies ==
    {AppointmentBody(Value("P2"), Value(d), Value("text"), Value(t), UndefinedBoolean) :
        d \in RequestDates \ {0}, t \in {1, 4}}
    \cup {AppointmentBody(Value(UnknownRut), Value(8), Value("text"), Value(4),
                          UndefinedBoolean)}

\* bodies of PATCH: confirm, unconfirm, another slot of the same medic, a slot
\* of the other medic, another date
AppointmentUpdateBodies ==
    {AppointmentBody(UndefinedString, UndefinedNumber, UndefinedString, UndefinedNumber, c) :
        c \in {[t |-> "ok", v |-> TRUE], [t |-> "falsy", v |-> FALSE]}}
    \cup {AppointmentBody(UndefinedString, UndefinedNumber, UndefinedString, Value(t),
                          UndefinedBoolean) : t \in {2, 3}}
    \cup {AppointmentBody(UndefinedString, Value(8), UndefinedString, UndefinedNumber,
                          UndefinedBoolean)}

NominalPatientCallers == {<<Bearer(TokenOf["P1"]), "P1">>, <<Bearer(TokenOf["A1"]), "P2">>}
RefusedPatientCallers ==
    {<<NoHeader, "P1">>, <<Bearer(TokenOf["P2"]), "P1">>,
     <<Bearer(TokenOf["A1"]), UnknownRut>>, <<Bearer(TokenOf["A1"]), InvalidRut>>}

NominalMedicCallers == {<<Bearer(TokenOf["M1"]), "M1">>}
RefusedMedicCallers ==
    {<<NoHeader, "M1">>, <<Bearer(TokenOf["P1"]), "M1">>, <<Bearer(TokenOf["M1"]), "M2">>,
     <<Bearer(TokenOf["A1"]), UnknownRut>>, <<Bearer(TokenOf["A1"]), InvalidRut>>}

ProbePatientsBody ==
    AppointmentBody(UndefinedString, Value(8), Value("text"), Value(4), UndefinedBoolean)
ProbeMedicsBody ==
    AppointmentBody(Value("P2"), Value(8), Value("text"), Value(4), UndefinedBoolean)

NextAppointments ==
    \/ \E caller \in NominalPatientCallers, body \in PatientsNewAppointmentBodies :
          patientsCreateAppointment(caller[1], TRUE, caller[2], body)
    \/ \E caller \in NominalPatientCallers \cup RefusedPatientCallers, json \in BOOLEAN :
          /\ (caller \in RefusedPatientCallers) = json
          /\ patientsCreateAppointment(caller[1], json, caller[2], ProbePatientsBody)
    \/ \E caller \in NominalPatientCallers \cup RefusedPatientCallers,
          id \in {0, 1, 2}, body \in AppointmentUpdateBodies :
          /\ caller \in NominalPatientCallers \/ (id = 1 /\ body.confirmed.t = "ok")
          /\ patientsUpdateAppointment(caller[1], caller[2], id, body)
    \/ \E caller \in NominalPatientCallers \cup RefusedPatientCallers,
          id \in {0, 1, 2} :
          /\ caller \in NominalPatientCallers \/ id = 1
          /\ patientsDeleteAppointment(caller[1], caller[2], id)
    \/ \E caller \in NominalMedicCallers, body \in MedicsNewAppointmentBodies :
          medicsCreateAppointment(caller[1], TRUE, caller[2], body)
    \/ \E caller \in NominalMedicCallers \cup RefusedMedicCallers, json \in BOOLEAN :
          /\ (caller \in RefusedMedicCallers) = json
          /\ medicsCreateAppointment(caller[1], json, caller[2], ProbeMedicsBody)
    \/ \E caller \in NominalMedicCallers \cup RefusedMedicCallers,
          id \in {0, 1}, body \in AppointmentUpdateBodies :
          /\ body.confirmed.t = "ok" \/ (caller \in NominalMedicCallers /\ body.timeSlotId.v = 3)
          /\ caller \in NominalMedicCallers \/ id = 1
          /\ medicsUpdateAppointment(caller[1], caller[2], id, body)
    \/ \E caller \in NominalMedicCallers \cup RefusedMedicCallers, id \in {0, 1} :
          /\ caller \in NominalMedicCallers \/ id = 1
          /\ medicsDeleteAppointment(caller[1], caller[2], id)
    \/ Tick

SpecAppointments == Init /\ [][NextAppointments]_vars

-----------------------------------------------------------------------------
(* Properties of the schedule slots *)

\* the classic interval test: [s1, e1) and [s2, e2) share a point
rangesOverlap(s1, e1, s2, e2) == s1 < e2 /\ s2 < e1

\* C2: no two active time slots of the same schedule and the same day have
\* overlapping time ranges, after any sequence of slot create, update and
\* delete requests.
C2_ActiveSlotsDoNotOverlap ==
    \A t1 \in time_slot : \A t2 \in time_slot :
        (t1.id # t2.id /\ t1.schedule_id = t2.schedule_id /\ t1.day = t2.day
         /\ t1.active /\ t2.active)
        => ~rangesOverlap(t1.start, t1.end, t2.start, t2.end)

\* a slot was created next to two others of its schedule and day
C2_Witness ==
    /\ request.op = "medics.createMedicScheduleSlot"
    /\ response.status = CREATED
    /\ \E t \in time_slot :
          /\ t.id = slotAutoInc - 1
          /\ Cardinality({u \in time_slot : u.schedule_id = t.schedule_id /\ u.day = t.day}) >= 3

\* a create request that reaches the validator with a well-formed candidate
\* whose start is before its end
IsCheckedSlotCreation(req) ==
    /\ req.op = "medics.createMedicScheduleSlot"
    /\ req.json
    /\ <<req.header, req.rut>> \in NominalSlotCallers
    /\ \A k \in {"day", "start", "end"} : req.body[k].t = "ok"
    /\ req.body.start.v < req.body.end.v

\* some active slot of the medic's schedule and of the candidate's day overlaps
\* the candidate under the classic test, in the table as the request finds it
CandidateOverlaps(req) ==
    \E t \in time_slot :
        /\ t.schedule_id = medic[req.rut]
        /\ t.day = req.body.day.v
        /\ t.active
        /\ rangesOverlap(t.start, t.end, req.body.start.v, req.body.end.v)

\* C3: createMedicScheduleSlot with start < end is rejected with 409 exactly
\* when some active slot of the same schedule and day overlaps the candidate
\* under the classic interval test; otherwise (a candidate that only touches
\* its neighbours included) it is accepted and stored.
C3_CreateSlotConflictIffOverlap ==
    [][IsCheckedSlotCreation(request') =>
          /\ (response'.status = CONFLICT) <=> CandidateOverlaps(request')
          /\ ~CandidateOverlaps(request') =>
                /\ response'.status = CREATED
                /\ \E t \in time_slot' \ time_slot :
                      /\ t.schedule_id = medic[request'.rut]
                      /\ t.start = request'.body.start.v
                      /\ t.end = request'.body.end.v]_vars

\* a candidate starting where slot 2 of schedule 1 ends was accepted
C3_Witness ==
    /\ IsCheckedSlotCreation(request)
    /\ request.rut = "M1"
    /\ request.body.day.v = "mo" /\ request.body.start.v = 2
    /\ response.status = CREATED
    /\ \E t \in time_slot : t.schedule_id = 1 /\ t.day = "mo" /\ t.end = 2

-----------------------------------------------------------------------------
(* Properties of the appointments *)

\* the slot an appointment references and the medic that slot resolves to
slotOf(a) == CHOOSE t \in time_slot : t.id = a.time_slot_id
medicOf(a) == CHOOSE m \in Medics : medic[m] = slotOf(a).schedule_id

\* the day of week of a date, date 0 being a Monday
dayOfWeek(date) == Days[(date % 7) + 1]

\* C1: no two distinct stored appointments on the same date that share the
\* patient, or share the medic resolved through slot, schedule and medic, have
\* slots whose time ranges overlap, after any sequence of appointment create,
\* update and delete requests through the patient and the medic endpoints.
C1_AppointmentsDoNotOverlap ==
    \A a1 \in appointment : \A a2 \in appointment :
        (a1.id # a2.id /\ a1.date = a2.date
         /\ (a1.patient_rut = a2.patient_rut \/ medicOf(a1) = medicOf(a2)))
        => ~rangesOverlap(slotOf(a1).start, slotOf(a1).end, slotOf(a2).start, slotOf(a2).end)

\* a request stored a second appointment of the same patient on the date of
\* another one, and a PATCH asking for an overlapping slot has been answered
C1_Witness ==
    /\ \E a1 \in appointment : \E a2 \in appointment :
          a1.id # a2.id /\ a1.date = a2.date /\ a1.patient_rut = a2.patient_rut
    /\ request.op = "patients.updateAppointment"
    /\ request.body.timeSlotId = Value(3)
    /\ patientsAppointmentExists(request.id, request.rut)

\* C6: every stored appointment's date falls on the day of week of the slot it
\* references, after any sequence of appointment create and update requests.
C6_DateMatchesSlotDay ==
    \A a \in appointment : slotOf(a).day = dayOfWeek(a.date)

\* a request stored an appointment, and a PATCH of the date alone, to a date of
\* another day of week, has been answered
C6_Witness ==
    /\ \E a \in appointment : a.id > 1
    /\ request.op = "patients.updateAppointment"
    /\ request.body.date = Value(8)
    /\ patientsAppointmentExists(request.id, request.rut)
    /\ slotOf(appointmentById(request.id)).day = "mo"

\* C7: every appointment is created with confirmed = false, and no step, of any
\* endpoint, takes a stored appointment's confirmed from true to false.
C7_ConfirmedIsMonotone ==
    [][/\ \A b \in appointment' :
             (~\E a \in appointment : a.id = b.id) => b.confirmed = FALSE
       /\ \A a \in appointment : \A b \in appointment' :
             (a.id = b.id /\ a.confirmed) => b.confirmed]_vars

\* an appointment was created, and a PATCH with confirmed = false on the
\* confirmed appointment 1 has been answered
C7_Witness ==
    /\ \E a \in appointment : a.id > 1 /\ a.confirmed = FALSE
    /\ \E a \in appointment : a.id = 1 /\ a.confirmed
    /\ request.op = "patients.updateAppointment"
    /\ request.id = 1 /\ request.rut = "P1"
    /\ request.body.confirmed.t = "falsy"

\* a POST of an appointment, through either endpoint, by a caller the handler
\* accepts and with a body every field validator accepts
IsCheckedAppointmentCreation(req) ==
    /\ req.op \in {"patients.createAppointment", "medics.createAppointment"}
    /\ req.json
    /\ req.op = "patients.createAppointment" => <<req.header, req.rut>> \in NominalPatientCallers
    /\ req.op = "medics.createAppointment" =>
          /\ <<req.header, req.rut>> \in NominalMedicCallers
          /\ req.body.patientRut.t = "ok" /\ req.body.patientRut.v \in Patients
    /\ req.body.date.t = "ok" /\ req.body.date.v >= now.date
    /\ req.body.description.t = "ok"
    /\ req.body.timeSlotId.t = "ok"
    /\ \E t \in time_slot : t.id = req.body.timeSlotId.v /\ t.active

\* the patient and the slot of the appointment a creation request asks for
candidatePatient(req) ==
    IF req.op = "patients.createAppointment" THEN req.rut ELSE req.body.patientRut.v
candidateSlot(req) == CHOOSE t \in time_slot : t.id = req.body.timeSlotId.v

DayMismatch == Fail(CONFLICT, "Appointment day and time slot day do not match.", "")
AppointmentOverlaps == Fail(CONFLICT, "Appointment overlaps with another.", "")

\* the six-way enumeration: equal start, equal end, new start strictly inside
\* the existing range, new end strictly inside it, existing range strictly
\* inside the new one, new range strictly inside the existing one
sixWayOverlap(existing, new) ==
    \/ existing.start = new.start
    \/ existing.end = new.end
    \/ (existing.start < new.start /\ new.start < existing.end)
    \/ (existing.start < new.end /\ new.end < existing.end)
    \/ (new.start < existing.start /\ existing.end < new.end)
    \/ (existing.start < new.start /\ new.end < existing.end)

\* some stored appointment of the candidate's date, of the same patient or of
\* the same medic, has a slot overlapping the candidate's
candidateOverlapsStored(req) ==
    \E a \in appointment :
        /\ a.date = req.body.date.v
        /\ \/ a.patient_rut = candidatePatient(req)
           \/ slotOf(a).schedule_id = candidateSlot(req).schedule_id
        /\ sixWayOverlap(slotOf(a), candidateSlot(req))

candidateDayMatches(req) == candidateSlot(req).day = dayOfWeek(req.body.date.v)
candidateNotStarted(req) ==
    ~(req.body.date.v = now.date /\ candidateSlot(req).start < now.time)

\* C4: an appointment creation, through POST /patients/:rut/appointments or
\* POST /medics/:rut/appointments, that gets as far as the overlap check (its
\* fields are valid, its date falls on the slot's day, the slot has not
\* started) is rejected with 409 "Appointment overlaps with another" exactly
\* when a stored appointment of the same date, of the same patient or of the
\* same medic, has a slot overlapping the candidate's under the six-way
\* enumeration.
C4_CreationConflictIffOverlap ==
    [][(IsCheckedAppointmentCreation(request') /\ candidateDayMatches(request')
        /\ candidateNotStarted(request'))
       => ((response' = AppointmentOverlaps) <=> candidateOverlapsStored(request'))]_vars

\* C5: the day-match check of appointment creation, in the patient endpoint
\* and in the medic endpoint, passes exactly when the date's day of week
\* equals the slot's day; a mismatch is rejected with 409.
C5_DayCheckIffSameDayOfWeek ==
    [][IsCheckedAppointmentCreation(request')
       => ((response' = DayMismatch) <=> ~candidateDayMatches(request'))]_vars

\* a PATCH of a stored appointment, through either endpoint, by a caller the
\* handler accepts
IsAppointmentUpdate(req) ==
    /\ req.op \in {"patients.updateAppointment", "medics.updateAppointment"}
    /\ \E a \in appointment : a.id = req.id
    /\ req.op = "patients.updateAppointment" =>
          /\ <<req.header, req.rut>> \in NominalPatientCallers
          /\ appointmentById(req.id).patient_rut = req.rut
    /\ req.op = "medics.updateAppointment" =>
          /\ <<req.header, req.rut>> \in NominalMedicCallers
          /\ medicOf(appointmentById(req.id)) = req.rut

\* C8: once an appointment's confirmed is true, a PATCH that carries
\* confirmed = false, or confirmed = true again, fails with 409 and leaves the
\* appointment unchanged.
C8_ConfirmedAgainIsConflict ==
    [][(IsAppointmentUpdate(request') /\ appointmentById(request'.id).confirmed
        /\ request'.body.confirmed.t \in {"ok", "falsy"})
       => (response'.status = CONFLICT /\ appointment' = appointment)]_vars

\* C9: the medic an appointment resolves to through its slot's schedule is the
\* same in every state from creation to deletion: a PATCH, through the patient
\* or the medic endpoint, whose timeSlotId belongs to a different medic is
\* rejected with 409 and never committed.
C9_MedicIsImmutable ==
    [][/\ \A a \in appointment : \A b \in appointment' :
             a.id = b.id =>
                medic[medicOf(a)] = (CHOOSE t \in time_slot' : t.id = b.time_slot_id).schedule_id
       /\ (IsAppointmentUpdate(request') /\ request'.body.timeSlotId.t = "ok"
           /\ \E t \in time_slot :
                 /\ t.id = request'.body.timeSlotId.v
                 /\ t.schedule_id # slotOf(appointmentById(request'.id)).schedule_id)
          => (response'.status = CONFLICT /\ appointment' = appointment)]_vars

-----------------------------------------------------------------------------
(* Requests that try the authorization gate of every operation *)

Header(prefix, id, len, alphabet) ==
    [prefix |-> prefix, str |-> [id |-> id, len |-> len, alphabet |-> alphabet]]

\* a token string nobody registered
UnregisteredToken == Cardinality(Subjects) + 1

\* the session of every subject, an unregistered token, a registered token
\* cut by one character, extended by one, holding a character outside the
\* base64url alphabet, sent under another scheme, and no header
AuthHeaders ==
    {Bearer(TokenOf[subject]) : subject \in Subjects}
    \cup {Bearer(UnregisteredToken),
          Header("Bearer ", TokenOf["A1"], TokenLength - 1, TRUE),
          Header("Bearer ", TokenOf["A1"], TokenLength + 1, TRUE),
          Header("Bearer ", TokenOf["A1"], TokenLength, FALSE),
          Header("Basic ", TokenOf["A1"], TokenLength, TRUE),
          NoHeader}

ProbeUpdateBody ==
    AppointmentBody(UndefinedString, UndefinedNumber, Value("text"), UndefinedNumber,
                    UndefinedBoolean)
ProbeSlotUpdateBody == SlotBody(UndefinedString, Value(2), Value(3))

NextAuth ==
    \/ \E header \in AuthHeaders, json \in BOOLEAN :
          patientsCreateAppointment(header, json, "P1", ProbePatientsBody)
    \/ \E header \in AuthHeaders :
          patientsUpdateAppointment(header, "P1", 1, ProbeUpdateBody)
    \/ \E header \in AuthHeaders : patientsDeleteAppointment(header, "P1", 1)
    \/ \E header \in AuthHeaders, json \in BOOLEAN :
          medicsCreateAppointment(header, json, "M1", ProbeMedicsBody)
    \/ \E header \in AuthHeaders :
          medicsUpdateAppointment(header, "M1", 1, ProbeUpdateBody)
    \/ \E header \in AuthHeaders : medicsDeleteAppointment(header, "M1", 1)
    \/ \E header \in AuthHeaders, json \in BOOLEAN :
          createMedicScheduleSlot(header, json, "M1", ProbeSlotBody)
    \/ \E header \in AuthHeaders :
          updateMedicScheduleSlot(header, "M1", 2, ProbeSlotUpdateBody)
    \/ \E header \in AuthHeaders : deleteMedicScheduleSlot(header, "M1", 2)

SpecAuth == Init /\ [][NextAuth]_vars

\* the header is "Bearer " followed by exactly 86 base64url characters, the
\* token is in the registry and its role is in the operation's role set
hasAcceptedCredentials(req) ==
    /\ req.header.prefix = "Bearer "
    /\ req.header.str.len = 86
    /\ req.header.str.alphabet
    /\ \E tk \in tokens :
          /\ tk.token = req.header.str.id
          /\ tk.type \in requiresAuthorization[req.op]

IsGatedRequest(req) == req.op \in DOMAIN requiresAuthorization

persistentStateAndRegistry ==
    <<time_slot, appointment, slotAutoInc, appointmentAutoInc, session_token, tokens>>

\* C10 as stated: the handler body of an operation declared with
\* requiresAuthorization runs only if the request carries accepted
\* credentials; in every other case the response is 401 and neither the
\* persistent state nor the registry changes.
C10_GateAnswers401 ==
    [][IsGatedRequest(request') =>
          /\ makeMethodDecorator(request').ok => hasAcceptedCredentials(request')
          /\ ~hasAcceptedCredentials(request') =>
                /\ response'.status = UNAUTHORIZED
                /\ UNCHANGED persistentStateAndRegistry]_vars

\* C10, amended: the handler body runs only if the request carries accepted
\* credentials; in every other case neither the persistent state nor the
\* registry changes and the response is 401, or 400 when the request is a POST
\* whose content type is not application/json, which is checked first.
C10_GateAnswers401Or400 ==
    [][IsGatedRequest(request') =>
          /\ makeMethodDecorator(request').ok => hasAcceptedCredentials(request')
          /\ ~hasAcceptedCredentials(request') =>
                /\ IF request'.op \in PostMethod /\ ~request'.json
                   THEN response' = ContentTypeError
                   ELSE response' = InvalidSessionToken
                /\ UNCHANGED persistentStateAndRegistry]_vars

\* a request whose token lacks one character was refused after a request
\* with accepted credentials had changed the database
C10_Witness ==
    /\ IsGatedRequest(request)
    /\ request.header.prefix = "Bearer " /\ request.header.str.len = 85
    /\ response = InvalidSessionToken
    /\ appointment = {}

-----------------------------------------------------------------------------
(* The identity check of the self-scoped operations *)

\* a request of a self-scoped operation that got past the authorization gate
\* and the rut check, so that the identity check is what decides
ReachesIdentityCheck(req) ==
    /\ IsGatedRequest(req)
    /\ makeMethodDecorator(req).ok
    /\ isValidRut(req.rut)

\* C11: on every self-scoped operation a request passes the identity check
\* exactly when the token's subject is the subject of the path or the token's
\* role is Admin; every other token, whatever its role, is answered 401.
C11_IdentityCheckIffSelfOrAdmin ==
    [][ReachesIdentityCheck(request') =>
          ((response' # InvalidSessionToken) <=>
              (getToken(request'.header).rut = request'.rut
               \/ getToken(request'.header).type = "ADMIN"))]_vars

-----------------------------------------------------------------------------
(* Ownership of the schedule slots *)

\* C12: a request that carries a Medic token changes or deletes a time slot
\* only if the slot belongs to the schedule of the medic the token names: no
\* PATCH or DELETE /medics/:rut/schedule/slots/:id touches a slot of another
\* medic's schedule.
C12_MedicTouchesOwnSlotsOnly ==
    [][(request'.op \in {"medics.updateMedicScheduleSlot", "medics.deleteMedicScheduleSlot"}
        /\ getToken(request'.header).type = "MEDIC")
       => \A t \in time_slot :
             t.schedule_id # medic[getToken(request'.header).rut] => t \in time_slot']_vars

-----------------------------------------------------------------------------
(* Sessions: the token registry of tokens.ts and the session handlers *)

\* the strings randomBytes(64) can produce, scaled down
MaxToken == 6
TokenStrings == 1..MaxToken

\* tokens.has(token)
doesTokenExist(token) == \E tk \in tokens : tk.token = token

\* generateToken, for a string the do-while loop has found absent from the
\* registry: the string is written to the subject's session_token column,
\* over the one it held, and registered
generateToken(token, rut, type) ==
    /\ session_token' = [session_token EXCEPT ![rut] = token]
    /\ tokens' = {tk \in tokens : tk.token # token}
                 \cup {[token |-> token, rut |-> rut, type |-> type]}

\* a variant of revokeToken that clears the column and keeps the registry entry
revokeTokenColumnOnly(token) ==
    /\ session_token' = [s \in Subjects |->
                            IF session_token[s] = token THEN NULL ELSE session_token[s]]
    /\ tokens' = tokens

\* revokeToken: a registered string is cleared from the column that holds it
\* and deleted from the registry; an unknown string is left alone
revokeToken(token) ==
    IF doesTokenExist(token)
    THEN /\ session_token' = [s \in Subjects |->
                                 IF session_token[s] = token THEN NULL ELSE session_token[s]]
         /\ tokens' = {tk \in tokens : tk.token # token}
    ELSE UNCHANGED <<tokens, session_token>>

\* loadTokens: the registry built from every session_token column that is not
\* null, the role being that of the table the row is in
loadTokens ==
    {[token |-> session_token[s], rut |-> s, type |-> TypeOfSubject(s)] :
        s \in {x \in Subjects : session_token[x] # NULL}}

\* the operations of the three endpoints, by the role of their subjects
createSessionOp ==
    [type \in TokenType |->
        IF type = "PATIENT" THEN "patients.createSession"
        ELSE IF type = "MEDIC" THEN "medics.createSession" ELSE "admins.createSession"]
expireSessionOp ==
    [type \in TokenType |->
        IF type = "PATIENT" THEN "patients.expireSession"
        ELSE IF type = "MEDIC" THEN "medics.expireSession" ELSE "admins.expireSession"]

\* the password whose hash the subject's row stores
storedPassword == [s \in Subjects |-> s]

\* the catch of the outer wrapper of makeMethodDecorator: a rejected promise
\* it is handed is answered 500
catch(result) ==
    IF result.status = UNHANDLED_REJECTION
    THEN [ok |-> FALSE, status |-> INTERNAL_SERVER_ERROR, message |-> "", key |-> ""]
    ELSE result

\* the 201 of createSession, whose body carries the token
SessionCreated(token) ==
    [ok |-> TRUE, status |-> CREATED, message |-> "", key |-> "", token |-> token]

\* POST /:rut/session of PatientsEndpoint, MedicsEndpoint and AdminsEndpoint;
\* dbUp tells whether the database answers the handler's queries
createSessionResult(req, type, token, dbUp) ==
    IF ~makeMethodDecorator(req).ok THEN makeMethodDecorator(req)
    ELSE IF Falsy(req.body.password)
        THEN Fail(BAD_REQUEST, "Request body must contain password.", "")
    ELSE catch(IF ~dbUp THEN DbError("database unreachable")
               ELSE IF ~(req.rut \in Subjects /\ TypeOfSubject(req.rut) = type)
                   THEN Fail(NOT_FOUND, "${rut} does not exist.", "")
               ELSE IF req.body.password.v # storedPassword[req.rut]
                   THEN Fail(UNAUTHORIZED, "Incorrect password.", "")
               ELSE SessionCreated(token))

createSession(type, json, rut, password, token, dbUp) ==
    LET req == Request(createSessionOp[type], NoHeader, json, rut, NULL,
                       [password |-> password])
        res == createSessionResult(req, type, token, dbUp)
    IN  /\ ~doesTokenExist(token)
        /\ request' = req
        /\ response' = res
        /\ IF res.ok THEN generateToken(token, rut, type)
           ELSE UNCHANGED <<tokens, session_token>>
        /\ UNCHANGED <<time_slot, appointment, slotAutoInc, appointmentAutoInc, now, pending>>

\* DELETE /:rut/session of the three endpoints: declared with
\* requiresAuthorization, so a rejection of revokeToken's query is caught by
\* nobody
expireSessionResult(req, dbUp) ==
    IF ~makeMethodDecorator(req).ok THEN makeMethodDecorator(req)
    ELSE IF ~dbUp THEN DbError("database unreachable")
    ELSE Success(NO_CONTENT)

expireSession(type, header, rut, dbUp) ==
    LET req == Request(expireSessionOp[type], header, TRUE, rut, NULL, NoBody)
        res == expireSessionResult(req, dbUp)
    IN  /\ request' = req
        /\ response' = res
        /\ IF res.ok THEN revokeToken(getToken(header).token)
           ELSE UNCHANGED <<tokens, session_token>>
        /\ UNCHANGED <<time_slot, appointment, slotAutoInc, appointmentAutoInc, now, pending>>

\* the process stops and starts again: the registry of the new process is what
\* loadTokens reads, and the suspended handlers are gone
Restart ==
    /\ tokens' = loadTokens
    /\ pending' = {}
    /\ request' = NoRequest
    /\ response' = Ok
    /\ UNCHANGED <<time_slot, appointment, slotAutoInc, appointmentAutoInc,
                   session_token, now>>

-----------------------------------------------------------------------------
(* Requests on the session endpoints *)

\* lookup: the registry entry of a well-formed token string
lookup(token) == getTokenData([id |-> token, len |-> TokenLength, alphabet |-> TRUE])

\* who logs in and out: a patient and a medic, at the endpoint of their role
SessionSubjects == {"P1", "M1"}

PasswordOf(rut) == Value(storedPassword[rut])
WrongPassword == Value("wrong")

\* logins that fail, as <<role, json, rut, password, dbUp>>: a content type
\* that is not JSON, no password, a wrong password, the rut of a subject of
\* another role, a database that does not answer
RefusedLogins ==
    {<<"PATIENT", FALSE, "P1", PasswordOf("P1"), TRUE>>,
     <<"MEDIC", TRUE, "M1", UndefinedString, TRUE>>,
     <<"ADMIN", TRUE, "A1", WrongPassword, TRUE>>,
     <<"PATIENT", TRUE, "M1", PasswordOf("M1"), TRUE>>,
     <<"PATIENT", TRUE, "P1", PasswordOf("P1"), FALSE>>}

\* logins with the right password; logouts with every token string at the
\* endpoint of the role it is registered with, while the database answers and
\* while it does not; a logout at the endpoint of another role; a restart
NextTokens ==
    \/ \E rut \in SessionSubjects, token \in TokenStrings :
          createSession(TypeOfSubject(rut), TRUE, rut, PasswordOf(rut), token, TRUE)
    \/ \E login \in RefusedLogins, token \in TokenStrings :
          createSession(login[1], login[2], login[3], login[4], token, login[5])
    \/ \E rut \in SessionSubjects, token \in TokenStrings, dbUp \in BOOLEAN :
          /\ lookup(token).rut = rut
          /\ expireSession(TypeOfSubject(rut), Bearer(token), rut, dbUp)
    \/ expireSession("MEDIC", Bearer(TokenOf["P1"]), "M1", TRUE)
    \/ Restart

SpecTokens == Init /\ [][NextTokens]_vars

CreateSessionOps == {createSessionOp[type] : type \in TokenType}
ExpireSessionOps == {expireSessionOp[type] : type \in TokenType}

\* the role of the subjects an operation's endpoint serves
roleOfOp(op) ==
    CHOOSE type \in TokenType : op \in {createSessionOp[type], expireSessionOp[type]}

\* C13: after issue for a subject has returned token t, lookup(t) is that
\* subject's identity and role; after revoke(t) has completed, lookup(t) is
\* absent.
C13_IssueThenLookupRevokeThenAbsent ==
    [][\A t \in TokenStrings :
          /\ (request'.op \in CreateSessionOps /\ response'.status = CREATED
              /\ response'.token = t)
             => lookup(t)' = [token |-> t, rut |-> request'.rut,
                              type |-> roleOfOp(request'.op)]
          /\ (request'.op \in ExpireSessionOps /\ response'.status = NO_CONTENT
              /\ request'.header.str.id = t)
             => lookup(t)' = NoToken]_vars

\* a token issued by a login, which the registry resolved to its subject, has
\* been revoked by a logout
C13_Witness ==
    /\ request.op = "medics.expireSession"
    /\ response.status = NO_CONTENT
    /\ request.header.str.id > Cardinality(Subjects)
    /\ lookup(request.header.str.id) = NoToken
    /\ session_token["M1"] = NULL

\* C14: the registry is durable across restarts: every token string whose
\* lookup succeeded before a restart resolves to the same subject and role
\* after it, and every string that was absent stays absent.
C14_RestartKeepsLookups ==
    [][Restart => \A t \in TokenStrings : lookup(t)' = lookup(t)]_vars

\* In the model an exception of a handler leaves one of two traces in the
\* response: 500, when the outer wrapper's catch was handed the rejection, or
\* no response at all.
handlerFailed(res) == res.status \in {UNHANDLED_REJECTION, INTERNAL_SERVER_ERROR}

\* C17: for every operation, those declared with requiresAuthorization
\* included, a handler that fails with an unexpected exception has its request
\* answered with status 500.
C17_ExceptionIsAnswered500 ==
    [][(request'.op # "" /\ handlerFailed(response'))
       => response'.status = INTERNAL_SERVER_ERROR]_vars

-----------------------------------------------------------------------------
(* Concurrent appointment creations: a handler is suspended at each await, and
   other handlers run meanwhile; the insert statement, its trigger included,
   is one step of the database *)

\* handlers that may be suspended at their insert statement at the same time
MaxPending == 2

InsertRejected == DbError("insert into appointment rejected")

\* every check of POST /patients/:rut/appointments that precedes the insert
\* statement lets the request through
passesApplicationChecks(req) ==
    patientsCreateAppointmentResult(req) \in {Success(CREATED), InsertRejected}

\* what the insert statement of a suspended handler does to the table as it
\* is when the statement runs
insertAppointmentResult(req) ==
    IF canInsertAppointment(newAppointmentRow(req.body, req.rut))
    THEN Success(CREATED) ELSE InsertRejected

\* POST /patients/:rut/appointments up to the insert statement: a request the
\* checks refuse is answered; one they let through is suspended
patientsCreateAppointmentChecks(header, json, rut, body) ==
    LET req == Request("patients.createAppointment", header, json, rut, NULL, body)
    IN  /\ Cardinality(pending) < MaxPending
        /\ req \notin pending
        /\ IF passesApplicationChecks(req)
           THEN /\ pending' = pending \cup {req}
                /\ UNCHANGED <<request, response>>
           ELSE /\ request' = req
                /\ response' = patientsCreateAppointmentResult(req)
                /\ UNCHANGED pending
        /\ UNCHANGED <<time_slot, appointment, slotAutoInc, appointmentAutoInc, tokens,
                       session_token, now>>

\* the insert statement of a suspended handler, and its answer
patientsCreateAppointmentInsert(req) ==
    LET res == insertAppointmentResult(req)
    IN  /\ req \in pending
        /\ res.ok => appointmentAutoInc <= MaxAppointmentId
        /\ pending' = pending \ {req}
        /\ request' = req
        /\ response' = res
        /\ appointment' = IF res.ok
                          THEN appointment \cup {newAppointmentRow(req.body, req.rut)}
                          ELSE appointment
        /\ appointmentAutoInc' = IF res.ok THEN appointmentAutoInc + 1 ELSE appointmentAutoInc
        /\ UNCHANGED <<time_slot, slotAutoInc, tokens, session_token, now>>

\* the database of the initial state with an empty table appointment
InitConcurrent ==
    /\ time_slot = {Slot(1, 1, "mo", 0, 1), Slot(2, 1, "mo", 1, 2),
                    Slot(3, 2, "mo", 0, 2), Slot(4, 2, "tu", 1, 2)}
    /\ slotAutoInc = 5
    /\ appointment = {}
    /\ appointmentAutoInc = 1
    /\ tokens = {[token |-> TokenOf[s], rut |-> s, type |-> TypeOfSubject(s)] : s \in Subjects}
    /\ session_token = TokenOf
    /\ now = [date |-> 1, time |-> 0]
    /\ pending = {}
    /\ request = NoRequest
    /\ response = Ok

\* next Monday's slots for both patients, and one request the checks refuse
ConcurrentBodies ==
    {AppointmentBody(UndefinedString, Value(7), Value("text"), Value(t), UndefinedBoolean) :
        t \in {1, 2, 3}}
    \cup {AppointmentBody(UndefinedString, Value(8), Value("text"), Value(1),
                          UndefinedBoolean)}

NextConcurrent ==
    \/ \E caller \in NominalPatientCallers, body \in ConcurrentBodies :
          patientsCreateAppointmentChecks(caller[1], TRUE, caller[2], body)
    \/ \E req \in pending : patientsCreateAppointmentInsert(req)

SpecConcurrent == InitConcurrent /\ [][NextConcurrent]_vars

\* the row a suspended request asks for, as <<patient, slot, date>>
candidateRow(req) ==
    [patient_rut |-> req.rut, time_slot_id |-> req.body.timeSlotId.v, date |-> req.body.date.v]

\* two appointments conflict: same slot and date, or overlapping slots on the
\* same date with the same patient or the same medic
rowsConflict(a, b) ==
    /\ a.date = b.date
    /\ \/ a.time_slot_id = b.time_slot_id
       \/ /\ rangesOverlap(slotOf(a).start, slotOf(a).end, slotOf(b).start, slotOf(b).end)
          /\ \/ a.patient_rut = b.patient_rut
             \/ slotOf(a).schedule_id = slotOf(b).schedule_id

\* C15: of two concurrent appointment creations that conflict with each other
\* and have both passed the application's checks, at most one is committed:
\* the insert of a request whose row conflicts with a stored appointment is
\* rejected by the database, and no two stored appointments conflict.
C15_StoreRejectsSecondWriter ==
    [][/\ \A req \in pending \ pending' :
             (\E a \in appointment : rowsConflict(a, candidateRow(req)))
             => (appointment' = appointment /\ response' = InsertRejected)
       /\ \A a \in appointment' : \A b \in appointment' :
             a.id # b.id => ~rowsConflict(a, b)]_vars

\* two requests of the same patient for overlapping slots of two medics were
\* suspended together; one is stored and the insert of the other was rejected
C15_Witness ==
    /\ request.op = "patients.createAppointment"
    /\ response = InsertRejected
    /\ pending = {}
    /\ \E a \in appointment :
          /\ a.patient_rut = request.rut
          /\ a.date = request.body.date.v
          /\ a.time_slot_id # request.body.timeSlotId.v
          /\ slotOf(a).schedule_id # slotById(request.body.timeSlotId.v).schedule_id

-----------------------------------------------------------------------------
(* Booked slots, and PATCH twice *)

\* a PATCH or DELETE of a stored slot by a caller the handler accepts
IsSlotChange(req) ==
    /\ req.op \in {"medics.updateMedicScheduleSlot", "medics.deleteMedicScheduleSlot"}
    /\ <<req.header, req.rut>> \in NominalSlotCallers
    /\ \E t \in time_slot : t.id = req.id

\* C16: while at least one appointment references a time slot, every PATCH of
\* its day, start or end and every DELETE of it is rejected with 409, and the
\* slot is unchanged by the request.
C16_BookedSlotIsFrozen ==
    [][(IsSlotChange(request') /\ \E a \in appointment : a.time_slot_id = request'.id)
       => (response'.status = CONFLICT /\ slotById(request'.id) \in time_slot')]_vars

\* a PATCH of a stored slot whose payload is valid: well-formed fields, a
\* range that is not empty and overlaps no other active slot of the schedule
\* and day, and no appointment on the slot
IsValidSlotPatch(req) ==
    /\ req.op = "medics.updateMedicScheduleSlot"
    /\ IsSlotChange(req)
    /\ \A k \in {"day", "start", "end"} : req.body[k].t \in {"undefined", "ok"}
    /\ LET new == mergedSlot(req.body, slotById(req.id))
       IN  /\ new.start < new.end
           /\ ~\E t \in time_slot :
                  /\ t.id # new.id /\ t.schedule_id = new.schedule_id /\ t.day = new.day
                  /\ t.active
                  /\ rangesOverlap(t.start, t.end, new.start, new.end)
    /\ ~\E a \in appointment : a.time_slot_id = req.id

\* C18: a valid PATCH payload is answered 200 or 204 the first time and, sent
\* again with no other request in between, 304 the second time, the second
\* request leaving the state unchanged (stated for the time slot PATCH).
C18_PatchTwiceIsNotModified ==
    [][IsValidSlotPatch(request') =>
          IF request = request' /\ response.status \in {OK_STATUS, NO_CONTENT}
          THEN response'.status = NOT_MODIFIED /\ time_slot' = time_slot
          ELSE response'.status \in {OK_STATUS, NO_CONTENT, NOT_MODIFIED}]_vars

-----------------------------------------------------------------------------
(* Bookings next to a stored one, and slots that have started *)

\* a checked creation whose candidate is on the date of stored appointment a,
\* on a slot whose range overlaps that of a's slot
IsBookingNextTo(req, a) ==
    /\ IsCheckedAppointmentCreation(req)
    /\ req.body.date.v = a.date
    /\ rangesOverlap(slotOf(a).start, slotOf(a).end,
                     candidateSlot(req).start, candidateSlot(req).end)

sameMedic(req, a) == candidateSlot(req).schedule_id = slotOf(a).schedule_id

\* C19 as stated: given P's booking with medic M on date D, a booking by
\* another patient for a slot of M that overlaps it on D is rejected with 409,
\* and a booking by P with another medic at a slot that overlaps it on D
\* succeeds.
C19_SamePatientOtherMedicSucceeds ==
    [][\A a \in appointment :
          IsBookingNextTo(request', a) =>
             /\ (candidatePatient(request') # a.patient_rut /\ sameMedic(request', a))
                => response'.status = CONFLICT
             /\ (candidatePatient(request') = a.patient_rut /\ ~sameMedic(request', a))
                => response'.status = CREATED]_vars

\* C19, amended: a booking by another patient for a slot of M that overlaps
\* the stored one on D is rejected with 409, and so is a booking by P with
\* another medic at a slot that overlaps it on D; a booking by another patient
\* with another medic at an overlapping slot, through the patient endpoint,
\* for a slot that has not started and conflicts with no stored appointment,
\* succeeds.
C19_SharedPatientOrMedicIsRejected ==
    [][\A a \in appointment :
          IsBookingNextTo(request', a) =>
             /\ (candidatePatient(request') = a.patient_rut \/ sameMedic(request', a))
                => response'.status = CONFLICT
             /\ (/\ request'.op = "patients.createAppointment"
                 /\ candidateDayMatches(request') /\ candidateNotStarted(request')
                 /\ ~candidateOverlapsStored(request'))
                => response'.status = CREATED]_vars

\* patient P1, booked with medic M1 next Monday, asked for the slot of medic
\* M2 that overlaps the booking and was refused
C19_Witness ==
    /\ request.op = "patients.createAppointment"
    /\ request.rut = "P1"
    /\ response = AppointmentOverlaps
    /\ \E a \in appointment :
          /\ a.patient_rut = "P1"
          /\ IsBookingNextTo(request, a)
          /\ ~sameMedic(request, a)

AlreadyStarted == Fail(CONFLICT, "Time slot has already started.", "")

\* C20: a creation whose date is today gets past the not-yet-started check
\* only if the slot's start is strictly later than the current time, a slot
\* whose start is equal to or earlier than the current time being rejected
\* with 409 "Time slot has already started"; for a date after today the check
\* never rejects.
C20_StartedSlotIsRejected ==
    [][(IsCheckedAppointmentCreation(request') /\ response' # DayMismatch) =>
          /\ request'.body.date.v = now.date =>
                ((response' = AlreadyStarted) <=> candidateSlot(request').start <= now.time)
          /\ request'.body.date.v > now.date => response' # AlreadyStarted]_vars

-----------------------------------------------------------------------------
(* start < end *)

\* a slot creation or update that got as far as the validator, with a body
\* whose fields are all of the right type, and the row it asks for
IsTypedSlotCreation(req) ==
    /\ req.op = "medics.createMedicScheduleSlot"
    /\ req.json
    /\ <<req.header, req.rut>> \in NominalSlotCallers
    /\ \A k \in {"day", "start", "end"} : req.body[k].t = "ok"

IsWellTypedSlotWrite(req) ==
    \/ IsTypedSlotCreation(req)
    \/ /\ req.op = "medics.updateMedicScheduleSlot"
       /\ IsSlotChange(req)
       /\ \A k \in {"day", "start", "end"} : req.body[k].t \in {"ok", "undefined"}

resultingSlot(req) ==
    IF req.op = "medics.createMedicScheduleSlot"
    THEN [start |-> req.body.start.v, end |-> req.body.end.v]
    ELSE mergedSlot(req.body, slotById(req.id))

\* C21: every stored time slot has start < end, after any sequence of slot
\* creations, updates and deletions; and a creation or update whose resulting
\* start is not strictly before its end stores nothing: the table is the one
\* before the request.
C21_StartBeforeEnd ==
    /\ [](\A t \in time_slot : t.start < t.end)
    /\ [][(IsWellTypedSlotWrite(request')
           /\ resultingSlot(request').start >= resultingSlot(request').end)
          => time_slot' = time_slot]_vars

\* a creation for an empty range that no stored slot conflicts with got past
\* the validator and was refused by the table
C21_Witness ==
    /\ IsTypedSlotCreation(request)
    /\ request.body.start.v >= request.body.end.v
    /\ response = DbError("insert into time_slot rejected")
    /\ \A t \in time_slot : t.start < t.end

-----------------------------------------------------------------------------
(* Validator.validate on its own: tables of every form the constructor takes,
   applied to objects of every shape *)

\* declared fields of a table
MaxFields == 3

\* names of fields, in the order tables declare them, and a field no table
\* declares
KeyNames == <<"day", "start", "end", "date", "description", "timeSlotId">>
DeclaredKeys == {KeyNames[i] : i \in 1..MaxFields}
UndeclaredKey == "extra"

\* the three forms of an entry: {required: true, validate}, {required: false,
\* validate} and a bare function
EntryForms == {"required", "optional", "bare"}

parsedEntry(key, form) ==
    IF form = "bare" THEN BareEntry(key) ELSE Entry(key, form = "required")

ValidatorTables ==
    {[i \in 1..MaxFields |-> parsedEntry(KeyNames[i], form[i])] :
        form \in [1..MaxFields -> EntryForms]}

\* a field of the input: absent, present and falsy, present and accepted by
\* the field's validate function, present and refused by it
FieldValue(t) == [t |-> t, v |-> 0]

InputObjects ==
    {[k \in DeclaredKeys \cup {UndeclaredKey} |->
         IF k = UndeclaredKey THEN FieldValue(extra) ELSE FieldValue(declared[k])] :
        declared \in [DeclaredKeys -> {"undefined", "falsy", "ok", "bad"}],
        extra \in {"undefined", "ok"}}

\* what the validate function of a field returns for the field's value
genericFieldResult(object) ==
    [k \in DeclaredKeys |->
        IF object[k].t = "bad" THEN Fail(BAD_REQUEST, "Invalid ${key}.", k) ELSE Ok]

GlobalError == Fail(CONFLICT, "global validator", "")

\* result[key] = value, run for every declared field once validate has got
\* past it: the keys of the returned value and what they hold
resultValue(table, object) ==
    [k \in {table[i].key : i \in 1..Len(table)} |-> object[k]]

\* {ok: true, value: result}
Validated(value) ==
    [ok |-> TRUE, status |-> OK_STATUS, message |-> "", key |-> "", value |-> value]

\* a call of Validator.validate and what it returns, or throws
ValidateCall(table, object, globalResult) ==
    [op |-> "Validator.validate", table |-> table, object |-> object,
     globalResult |-> globalResult]

validateResult(call) ==
    LET result == validate(call.table, call.object, genericFieldResult(call.object),
                           call.globalResult)
    IN  IF result.ok THEN Validated(resultValue(call.table, call.object)) ELSE result

\* the call returns
validateReturns ==
    \E call \in pending :
        /\ call.op = "Validator.validate"
        /\ request' = call
        /\ response' = validateResult(call)
        /\ pending' = {}
        /\ UNCHANGED <<time_slot, appointment, slotAutoInc, appointmentAutoInc, tokens,
                       session_token, now>>

\* one call, of any table on any object, about to run
InitValidate ==
    /\ time_slot = {}
    /\ slotAutoInc = 1
    /\ appointment = {}
    /\ appointmentAutoInc = 1
    /\ tokens = {}
    /\ session_token = [s \in Subjects |-> NULL]
    /\ now = [date |-> 1, time |-> 0]
    /\ \E table \in ValidatorTables, object \in InputObjects,
          globalResult \in {Ok, GlobalError} :
          pending = {ValidateCall(table, object, globalResult)}
    /\ request = NoRequest
    /\ response = Ok

SpecValidate == InitValidate /\ [][validateReturns]_vars

IsValidateCall(req) == req.op = "Validator.validate"

\* the i-th declared field of a call is missing though required, or is
\* refused by its validate function
fieldFails(call, i) ==
    LET entry == call.table[i]
    IN  \/ entry.required /\ Falsy(call.object[entry.key])
        \/ call.object[entry.key].t = "bad"

\* the failure of the i-th declared field
fieldFailure(call, i) ==
    LET entry == call.table[i]
    IN  IF entry.required /\ Falsy(call.object[entry.key])
        THEN Fail(BAD_REQUEST, "Missing ${key}.", entry.key)
        ELSE Fail(BAD_REQUEST, "Invalid ${key}.", entry.key)

\* C25: validate checks the fields in the declared order and stops at the
\* first failure: what it returns is the failure of the first declared field
\* that is missing though required or refused by its validator; the global
\* validator's failure is returned only when every field has passed, so that a
\* field error is always reported in preference to a global one.
C25_FirstFieldFailureIsReported ==
    [][IsValidateCall(request') =>
          LET call == request'
              failing == {i \in 1..Len(call.table) : fieldFails(call, i)}
          IN  IF failing # {}
              THEN \E i \in failing :
                      /\ \A j \in failing : i <= j
                      /\ response' = fieldFailure(call, i)
              ELSE IF ~call.globalResult.ok THEN response' = call.globalResult
              ELSE response'.ok]_vars

C27_ValidateNeverThrows ==
    [][IsValidateCall(request') =>
          \/ response'.ok
          \/ response'.status \in {BAD_REQUEST, CONFLICT}]_vars

-----------------------------------------------------------------------------
(* The global validator of scheduleSlotUpdateValidator on its own *)

\* the global validator of scheduleSlotUpdateValidator applied to a body and a
\* stored slot, as updateMedicScheduleSlot hands them over
scheduleSlotUpdateGlobalCall(id, body) ==
    /\ \E t \in time_slot : t.id = id
    /\ request' = Request("scheduleSlotUpdateValidator.global", NoHeader, TRUE, "", id, body)
    /\ response' = scheduleSlotUpdateGlobal(body, slotById(id))
    /\ UNCHANGED <<time_slot, appointment, slotAutoInc, appointmentAutoInc, tokens,
                   session_token, now, pending>>

\* bodies of a PATCH: nothing, a range, a range with a day, a day
SlotPatchBodies ==
    {SlotBody(UndefinedString, UndefinedNumber, UndefinedNumber),
     SlotBody(Value("tu"), UndefinedNumber, UndefinedNumber)}
    \cup {SlotBody(day, Value(s), Value(e)) :
            day \in {UndefinedString, Value("mo")},
            s \in {1, 2}, e \in {2, 3}}

NextSlotChecks ==
    \/ \E caller \in NominalSlotCallers, body \in NewSlotBodies :
          createMedicScheduleSlot(caller[1], TRUE, caller[2], body)
    \/ \E id \in 1..MaxSlotId, body \in SlotPatchBodies :
          scheduleSlotUpdateGlobalCall(id, body)

SpecSlotChecks == Init /\ [][NextSlotChecks]_vars

SlotOverlaps == Fail(CONFLICT, "Time slot overlaps with another.", "")

\* the row a call of the global validator asks for
patchedSlot(req) == mergedSlot(req.body, slotById(req.id))

\* a call whose resulting range is not empty, overlaps the slot's own current
\* range on the slot's day, and is in conflict with no other active slot of
\* the schedule and day, for a slot no appointment references
IsPatchOverOwnRange(req) ==
    LET t == slotById(req.id)
        new == patchedSlot(req)
    IN  /\ req.op = "scheduleSlotUpdateValidator.global"
        /\ new.start < new.end
        /\ new.day = t.day
        /\ rangesOverlap(t.start, t.end, new.start, new.end)
        /\ ~\E u \in time_slot :
              /\ u.id # t.id
              /\ u.schedule_id = t.schedule_id /\ u.day = new.day /\ u.active
              /\ slotClauses(u, new.start, new.end)
        /\ ~\E a \in appointment : a.time_slot_id = t.id

-----------------------------------------------------------------------------
(* The checks of the appointment update validators on their own *)

\* the overlap query of MedicsEndpoint.newAppointmentValidator's global
\* validator as appointmentUpdateValidator's global validator runs it for an
\* update: on { ...oldAppointment, ...appointment, patientRut }, patientRut
\* being the :rut of the path, the medic's
medicsUpdateOverlapQuery(id, body) ==
    /\ \E a \in appointment : a.id = id
    /\ LET old == appointmentById(id)
           merged == mergedAppointment(body, old)
       IN  /\ \E t \in time_slot : t.id = merged.time_slot_id
           /\ request' = Request("medics.appointmentUpdateValidator.doesOverlap",
                                 NoHeader, TRUE, medicOf(old), id, body)
           /\ response' = IF doesAppointmentOverlap(merged.date, merged.time_slot_id,
                                                    medicOf(old))
                          THEN AppointmentOverlaps ELSE Ok
    /\ UNCHANGED <<time_slot, appointment, slotAutoInc, appointmentAutoInc, tokens,
                   session_token, now, pending>>

\* the global validator of PatientsEndpoint.appointmentUpdateValidator applied
\* to a body and a stored appointment, as updateAppointment hands them over
patientsAppointmentUpdateGlobalCall(id, body) ==
    /\ \E a \in appointment : a.id = id
    /\ request' = Request("patients.appointmentUpdateValidator.global", NoHeader, TRUE,
                          appointmentById(id).patient_rut, id, body)
    /\ response' = patientsAppointmentUpdateGlobal(body, appointmentById(id))
    /\ UNCHANGED <<time_slot, appointment, slotAutoInc, appointmentAutoInc, tokens,
                   session_token, now, pending>>

\* bodies of a PATCH: a description, a confirmation, another slot, another date
AppointmentPatchBodies ==
    AppointmentUpdateBodies
    \cup {AppointmentBody(UndefinedString, UndefinedNumber, Value("text"), UndefinedNumber,
                          UndefinedBoolean)}
    \cup {AppointmentBody(UndefinedString, UndefinedNumber, UndefinedString, Value(t),
                          UndefinedBoolean) : t \in {1, 4}}

NextAppointmentChecks ==
    \/ \E caller \in NominalPatientCallers, body \in PatientsNewAppointmentBodies :
          patientsCreateAppointment(caller[1], TRUE, caller[2], body)
    \/ \E caller \in NominalPatientCallers, id \in 1..MaxAppointmentId :
          patientsDeleteAppointment(caller[1], caller[2], id)
    \/ \E id \in 1..MaxAppointmentId, body \in AppointmentPatchBodies :
          medicsUpdateOverlapQuery(id, body)
    \/ \E id \in 1..MaxAppointmentId, body \in AppointmentPatchBodies :
          patientsAppointmentUpdateGlobalCall(id, body)

SpecAppointmentChecks == Init /\ [][NextAppointmentChecks]_vars

\* some stored appointment other than the one being updated is on the date
\* and, with the same medic or the same patient, on a slot that overlaps
otherAppointmentConflicts(old, new) ==
    \E a \in appointment :
        /\ a.id # old.id
        /\ a.date = new.date
        /\ a.patient_rut = old.patient_rut
           \/ slotOf(a).schedule_id = slotOf(new).schedule_id
        /\ sixWayOverlap(slotOf(a), slotOf(new))

-----------------------------------------------------------------------------
(* POST /medics/:rut/appointments in two steps: the handler's checks, then its
   insert statement *)

\* every check of the handler that precedes the insert statement lets the
\* request through
passesMedicsApplicationChecks(req) ==
    medicsCreateAppointmentResult(req) \in {Success(CREATED), InsertRejected}

\* the handler up to the insert statement: a request the checks refuse is
\* answered; one they let through is suspended at the statement
medicsCreateAppointmentChecks(header, json, rut, body) ==
    LET req == Request("medics.createAppointment", header, json, rut, NULL, body)
    IN  /\ Cardinality(pending) < MaxPending
        /\ req \notin pending
        /\ IF passesMedicsApplicationChecks(req)
           THEN /\ pending' = pending \cup {req}
                /\ UNCHANGED <<request, response>>
           ELSE /\ request' = req
                /\ response' = medicsCreateAppointmentResult(req)
                /\ UNCHANGED pending
        /\ UNCHANGED <<time_slot, appointment, slotAutoInc, appointmentAutoInc, tokens,
                       session_token, now>>

\* the insert statement of a suspended handler, and its answer
medicsCreateAppointmentInsert(req) ==
    LET new == newAppointmentRow(req.body, req.body.patientRut.v)
        res == IF canInsertAppointment(new) THEN Success(CREATED) ELSE InsertRejected
    IN  /\ req \in pending
        /\ res.ok => appointmentAutoInc <= MaxAppointmentId
        /\ pending' = pending \ {req}
        /\ request' = req
        /\ response' = res
        /\ appointment' = IF res.ok THEN appointment \cup {new} ELSE appointment
        /\ appointmentAutoInc' = IF res.ok THEN appointmentAutoInc + 1 ELSE appointmentAutoInc
        /\ UNCHANGED <<time_slot, slotAutoInc, tokens, session_token, now>>

\* medic M1 and the administrator for M1, and medic M2
MedicBookingCallers ==
    NominalMedicCallers
    \cup {<<Bearer(TokenOf["A1"]), "M1">>, <<Bearer(TokenOf["M2"]), "M2">>}

NextMedicBooking ==
    \/ \E caller \in MedicBookingCallers, body \in MedicsNewAppointmentBodies :
          medicsCreateAppointmentChecks(caller[1], TRUE, caller[2], body)
    \/ \E req \in pending : medicsCreateAppointmentInsert(req)
    \/ Tick

SpecMedicBooking == Init /\ [][NextMedicBooking]_vars

\* a creation through the medic endpoint by a medic
IsBookingByMedic(req) ==
    /\ req.op = "medics.createAppointment"
    /\ getToken(req.header).type = "MEDIC"

-----------------------------------------------------------------------------
(* PATCH /medics/:rut from its update statements on: the part of updateMedic
   that follows the validation, applied to a validated value and to the rows
   of the medic in tables employee and medic *)

\* rows of table specialty
MaxSpecialty == 2

FirstNames == {"Ana", "Eva"}
Genders == {"f", "m"}

\* the columns of the medic's rows that the model follows
MedicRows ==
    [first_name : FirstNames, gender : Genders, specialty_id : 1..MaxSpecialty]

\* values validate hands over: every declared field, holding what the body
\* carried or undefined
MedicUpdateValues ==
    [firstName : {UndefinedString} \cup {Value(n) : n \in FirstNames},
     gender : {UndefinedString} \cup {Value(g) : g \in Genders},
     specialtyId : {UndefinedNumber} \cup {Value(i) : i \in 1..MaxSpecialty}]

\* update employee set ... where rut = :rut: undefined values are left out of
\* the statement
employeeUpdated(row, value) ==
    [row EXCEPT
        !.first_name = IF IsAbsent(value.firstName) THEN @ ELSE value.firstName.v,
        !.gender = IF IsAbsent(value.gender) THEN @ ELSE value.gender.v]

\* update medic set specialty_id = :specialtyId where rut = :rut
medicUpdated(row, value) == [row EXCEPT !.specialty_id = value.specialtyId.v]

\* updateMedic from Object.keys(validationResult.value) on: the rows as the
\* statements leave them, and the status answered
updateMedicStatements(row, value) ==
    IF DOMAIN value = {}
        THEN [answer |-> Success(NOT_MODIFIED), row |-> row]
    ELSE IF IsAbsent(value.firstName) /\ IsAbsent(value.gender)
        THEN [answer |-> DbError("update employee without a column to set"), row |-> row]
    ELSE LET afterEmployee == employeeUpdated(row, value)
             employeeChanged == afterEmployee # row
             afterMedic == IF Falsy(value.specialtyId) THEN afterEmployee
                           ELSE medicUpdated(afterEmployee, value)
             updated == IF Falsy(value.specialtyId) THEN employeeChanged
                        ELSE afterMedic # afterEmployee
         IN  [answer |-> IF ~updated THEN Success(NOT_MODIFIED) ELSE Success(NO_CONTENT),
              row |-> afterMedic]

UpdateMedicCall(row, value) ==
    [op |-> "medics.updateMedic.statements", row |-> row, value |-> value]

\* the statements run and the handler answers; the rows they leave are kept
\* with the answer
updateMedicAnswers ==
    \E call \in pending :
        /\ call.op = "medics.updateMedic.statements"
        /\ request' = call
        /\ LET result == updateMedicStatements(call.row, call.value)
           IN  response' = [ok |-> result.answer.ok, status |-> result.answer.status,
                            message |-> result.answer.message, key |-> "",
                            row |-> result.row]
        /\ pending' = {}
        /\ UNCHANGED <<time_slot, appointment, slotAutoInc, appointmentAutoInc, tokens,
                       session_token, now>>

\* one validated update of a medic, about to run its statements
InitUpdateMedic ==
    /\ time_slot = {}
    /\ slotAutoInc = 1
    /\ appointment = {}
    /\ appointmentAutoInc = 1
    /\ tokens = {}
    /\ session_token = [s \in Subjects |-> NULL]
    /\ now = [date |-> 1, time |-> 0]
    /\ \E row \in MedicRows, value \in MedicUpdateValues :
          pending = {UpdateMedicCall(row, value)}
    /\ request = NoRequest
    /\ response = Ok

SpecUpdateMedic == InitUpdateMedic /\ [][updateMedicAnswers]_vars

-----------------------------------------------------------------------------
(* Concurrent calls of generateToken and revokeToken: each call is suspended at
   its awaits, and other calls run meanwhile *)

\* the strings randomBytes(64) produces in this specification
MaxRaceToken == 2
RaceTokens == 1..MaxRaceToken

\* who is issued tokens: two rows of table patient and one of table employee
RaceSubjects == {"P1", "P2", "M1"}

\* the table whose session_token column holds a subject's token
tableOf(s) == IF s \in Patients THEN "patient" ELSE "employee"

TokenCall(op, rut, token, pc) == [op |-> op, rut |-> rut, token |-> token, pc |-> pc]

\* generateToken up to its first await: the do-while loop has drawn a string
\* that tokens.has does not know
generateTokenDraw(rut, token) ==
    LET call == TokenCall("generateToken", rut, token, "write")
    IN  /\ Cardinality(pending) < MaxPending
        /\ ~\E c \in pending : c.op = "generateToken" /\ c.rut = rut
        /\ ~doesTokenExist(token)
        /\ pending' = pending \cup {call}
        /\ UNCHANGED <<time_slot, appointment, slotAutoInc, appointmentAutoInc, tokens,
                       session_token, now, request, response>>

\* the update of the subject's session_token column; the column is unique in
\* its table, and the statement is refused when another row holds the string
generateTokenWrite(call) ==
    /\ call \in pending
    /\ call.op = "generateToken" /\ call.pc = "write"
    /\ IF \E s \in Subjects \ {call.rut} :
             tableOf(s) = tableOf(call.rut) /\ session_token[s] = call.token
       THEN /\ pending' = pending \ {call}
            /\ request' = call
            /\ response' = catch(DbError("session_token is unique"))
            /\ UNCHANGED session_token
       ELSE /\ pending' = (pending \ {call}) \cup {[call EXCEPT !.pc = "register"]}
            /\ session_token' = [session_token EXCEPT ![call.rut] = call.token]
            /\ UNCHANGED <<request, response>>
    /\ UNCHANGED <<time_slot, appointment, slotAutoInc, appointmentAutoInc, tokens, now>>

\* tokens.set(token, ...) and the return of the string
generateTokenRegister(call) ==
    /\ call \in pending
    /\ call.op = "generateToken" /\ call.pc = "register"
    /\ tokens' = {tk \in tokens : tk.token # call.token}
                 \cup {[token |-> call.token, rut |-> call.rut,
                        type |-> TypeOfSubject(call.rut)]}
    /\ pending' = pending \ {call}
    /\ request' = call
    /\ response' = SessionCreated(call.token)
    /\ UNCHANGED <<time_slot, appointment, slotAutoInc, appointmentAutoInc,
                   session_token, now>>

\* revokeToken up to its await: doesTokenExist(token) holds
revokeTokenCheck(token) ==
    LET call == TokenCall("revokeToken", lookup(token).rut, token, "write")
    IN  /\ Cardinality(pending) < MaxPending
        /\ doesTokenExist(token)
        /\ call \notin pending
        /\ pending' = pending \cup {call}
        /\ UNCHANGED <<time_slot, appointment, slotAutoInc, appointmentAutoInc, tokens,
                       session_token, now, request, response>>

\* the update that sets to null the column that holds the string
revokeTokenWrite(call) ==
    /\ call \in pending
    /\ call.op = "revokeToken" /\ call.pc = "write"
    /\ session_token' = [s \in Subjects |->
                            IF session_token[s] = call.token THEN NULL ELSE session_token[s]]
    /\ pending' = (pending \ {call}) \cup {[call EXCEPT !.pc = "delete"]}
    /\ UNCHANGED <<time_slot, appointment, slotAutoInc, appointmentAutoInc, tokens, now,
                   request, response>>

\* tokens.delete(token) and the return
revokeTokenDelete(call) ==
    /\ call \in pending
    /\ call.op = "revokeToken" /\ call.pc = "delete"
    /\ tokens' = {tk \in tokens : tk.token # call.token}
    /\ pending' = pending \ {call}
    /\ request' = call
    /\ response' = Success(NO_CONTENT)
    /\ UNCHANGED <<time_slot, appointment, slotAutoInc, appointmentAutoInc,
                   session_token, now>>

\* a database in which nobody has a session
InitTokenRace ==
    /\ time_slot = {}
    /\ slotAutoInc = 1
    /\ appointment = {}
    /\ appointmentAutoInc = 1
    /\ tokens = {}
    /\ session_token = [s \in Subjects |-> NULL]
    /\ now = [date |-> 1, time |-> 0]
    /\ pending = {}
    /\ request = NoRequest
    /\ response = Ok

NextTokenRace ==
    \/ \E rut \in RaceSubjects, token \in RaceTokens : generateTokenDraw(rut, token)
    \/ \E call \in pending : generateTokenWrite(call)
    \/ \E call \in pending : generateTokenRegister(call)
    \/ \E token \in RaceTokens : revokeTokenCheck(token)
    \/ \E call \in pending : revokeTokenWrite(call)
    \/ \E call \in pending : revokeTokenDelete(call)

SpecTokenRace == InitTokenRace /\ [][NextTokenRace]_vars

\* the step is the return of a revokeToken(t)
IsRevokeOf(t) ==
    /\ request'.op = "revokeToken" /\ request'.token = t
    /\ \E call \in pending : call = [request' EXCEPT !.pc = "delete"]
    /\ pending' # pending

\* C24: under any interleaving of concurrent generateToken and revokeToken
\* calls, every token a completed issue returned maps in the registry to the
\* subject and role it was issued for, until that token is revoked: a
\* registered string keeps its entry through every step that is not the
\* return of its revocation, and no string is registered for two subjects.
C24_RegistryIsSafeUnderInterleaving ==
    /\ [](\A tk1 \in tokens, tk2 \in tokens : tk1.token = tk2.token => tk1 = tk2)
    /\ [][\A t \in RaceTokens :
             /\ (request'.op = "generateToken" /\ response'.status = CREATED
                 /\ response'.token = t /\ pending' # pending)
                => lookup(t)' = [token |-> t, rut |-> request'.rut,
                                 type |-> TypeOfSubject(request'.rut)]
             /\ (lookup(t) # NoToken /\ ~IsRevokeOf(t)) => lookup(t)' = lookup(t)]_vars

====
